---- MODULE Spec2Model ----
(***************************************************************************)
(* Honeypot attack map: the ingestion and dissemination pipeline.          *)
(*                                                                         *)
(*   honeypot.py        HoneypotServer: accept loop, one thread per        *)
(*                      accepted connection, hand-off to the callback      *)
(*   services/geoip.py  GeoIPService: private ranges, cache, rate limit,   *)
(*                      external lookup, fallback                          *)
(*   main.py            handle_new_attack: geolocate, build, commit, send  *)
(*   routes/attacks.py  delete_attack, cleanup_old_attacks, summary        *)
(*   models.py          Attack (table "attacks", integer primary key)      *)
(*                                                                         *)
(* Every accepted connection runs in a thread of its own, so the steps of  *)
(* two captures interleave at each blocking call.  Time is one clock of    *)
(* abstract ticks: the rate-limit delay is one tick and the cache          *)
(* freshness window two ticks, which keeps both expiries reachable.        *)
(***************************************************************************)
EXTENDS Integers, Sequences, FiniteSets, TLC

\* ---------------------------------------------------------------- bounds
NumConns == 2          \* connections accepted in one run
MaxTime  == 3          \* the clock stops ticking here
MaxAppends == 3        \* ingests in one run of the store operations
MaxStoreTime == 5      \* the clock's last value in those runs
MaxDays  == 2          \* largest 'days' passed to cleanup (1..365 in the code)
NumWebSockets == 2     \* websocket clients of /ws in one run
NumPublishers == 2     \* connection threads that reach send_attack
MaxRows  == 3          \* rows in the table when the REST routes are called
NumSamples == 6        \* distinct samples the attack generator draws from
NumAppPorts == 2       \* ports of HONEYPOT_PORTS that app.py listens on
NumHandlers == 2       \* connections the listeners accept in one run
NumThreads == 2        \* server threads one HoneypotServer creates in a run
NumCallers == 2        \* threads that call start() and stop() on it

\* ------------------------------------------------------ program constants
CacheDuration  == 2    \* geoip.py:27  timedelta(hours=24), in ticks
RateLimitDelay == 1    \* geoip.py:28  0.1 s, in ticks
HoneypotPort   == 2222 \* main.py:102

Null == "None"         \* Python None / SQL NULL
NaN  == -1             \* an address part that int() rejects

Conns == 1 .. NumConns
WebSockets == 1 .. NumWebSockets
Publishers == 1 .. NumPublishers

\* Addresses are the lists that ip_address.split('.') yields.
PrivateAddr == <<192, 168, 1, 1>>
PublicA     == <<8, 8, 8, 8>>
PublicB     == <<1, 1, 1, 1>>
Loopback    == <<127, 0, 0, 1>>
Addrs       == {PrivateAddr, PublicA, PublicB, Loopback}

\* app.py:26
HONEYPOT_PORTS == <<22, 23, 80, 443, 3389, 5432, 3306>>
AppPorts == {HONEYPOT_PORTS[i] : i \in 1 .. NumAppPorts}
Ports    == {HoneypotPort} \cup AppPorts
Handlers == 1 .. NumHandlers
PeerAddrs == {PrivateAddr, PublicA}

\* ------------------------------------------------------------ GeoIPService

\* geoip.py:121-150
is_private_ip_no192(parts) ==
    IF Len(parts) # 4 THEN TRUE
    ELSE IF parts[1] = NaN THEN TRUE
    ELSE IF parts[1] = 10 THEN TRUE
    ELSE IF parts[1] = 172
         THEN IF parts[2] = NaN THEN TRUE
              ELSE IF 16 <= parts[2] /\ parts[2] <= 31 THEN TRUE
              ELSE FALSE
    ELSE IF parts[1] = 127 THEN TRUE
    ELSE FALSE

is_private_ip(parts) ==
    IF Len(parts) # 4 THEN TRUE
    ELSE IF parts[1] = NaN THEN TRUE
    ELSE IF parts[1] = 10 THEN TRUE
    ELSE IF parts[1] = 172
         THEN IF parts[2] = NaN THEN TRUE
              ELSE IF 16 <= parts[2] /\ parts[2] <= 31 THEN TRUE
              ELSE FALSE
    ELSE IF parts[1] = 192
         THEN IF parts[2] = NaN THEN TRUE
              ELSE IF parts[2] = 168 THEN TRUE
              ELSE FALSE
    ELSE IF parts[1] = 127 THEN TRUE
    ELSE FALSE

\* geoip.py:152-169
get_private_ip_location ==
    [country |-> "Private Network", city |-> "Local Network",
     latitude |-> 0, longitude |-> 0, region |-> "Private",
     timezone |-> "UTC", isp |-> "Private Network",
     org |-> "Private Network", as |-> "Private"]

\* geoip.py:171-188
get_fallback_location ==
    [country |-> "Unknown", city |-> "Unknown",
     latitude |-> 0, longitude |-> 0, region |-> "Unknown",
     timezone |-> "UTC", isp |-> "Unknown",
     org |-> "Unknown", as |-> "Unknown"]

\* geoip.py:91-102: the record built from a 'success' answer of ip-api.com
ApiSuccessLocation(parts) ==
    IF parts = PublicA
    THEN [country |-> "United States", city |-> "Mountain View",
          latitude |-> 37, longitude |-> -122, region |-> "California",
          timezone |-> "America/Los_Angeles", isp |-> "Google LLC",
          org |-> "Google Public DNS", as |-> "AS15169"]
    ELSE [country |-> "Australia", city |-> "Sydney",
          latitude |-> -33, longitude |-> 151, region |-> "New South Wales",
          timezone |-> "Australia/Sydney", isp |-> "Cloudflare",
          org |-> "APNIC", as |-> "AS13335"]

\* Ways the external lookup can end (geoip.py:86-108).
Outcomes     == {"success", "fail_status", "http_error", "exception", "timeout"}
FailOutcomes == Outcomes \ {"success"}
\* aiohttp raises on a connection error and on ClientTimeout(total=10)
Raising      == {"exception", "timeout"}

\* geoip.py:74-108: what _fetch_location_from_api returns when it returns
fetch_location_from_api(parts, outcome) ==
    IF outcome = "success" THEN ApiSuccessLocation(parts)
    ELSE get_fallback_location

\* geoip.py:190-207
is_cache_valid_never(entry, t) == FALSE

is_cache_valid(entry, t) == t - entry.cached_at < CacheDuration

\* geoip.py:70-72: the handler of get_location returns, it does not re-raise
get_location_except_reraise ==
    [raised |-> TRUE, value |-> get_fallback_location]

get_location_except ==
    [raised |-> FALSE, value |-> get_fallback_location]

\* geoip.py:62-65: self.cache[ip_address] = {'location', 'cached_at'}
cache_put(c, a, loc, t) ==
    [x \in (DOMAIN c) \cup {a} |->
        IF x = a THEN [location |-> loc, cached_at |-> t] ELSE c[x]]

\* ------------------------------------------------------------- EventStore

NoId == 0              \* Attack.id of an object that was not inserted yet

MaxOf(S) == CHOOSE m \in S : \A x \in S : x <= m

Ids(rows) == {r.id : r \in rows}

\* models.py:25 with database.py:14.  The table is created by SQLAlchemy on
\* SQLite as  id INTEGER NOT NULL, PRIMARY KEY (id)  (the AUTOINCREMENT
\* keyword is only emitted with sqlite_autoincrement=True), so the id is the
\* rowid: one more than the largest id present in the table.
NextIdStale(rows) == 1

NextId(rows) == IF rows = {} THEN 1 ELSE MaxOf(Ids(rows)) + 1

\* routes/attacks.py:119-134
get_attack_summary(rows) ==
    [total_attacks    |-> Cardinality(rows),
     unique_countries |-> Cardinality({r.country : r \in rows}),
     unique_ips       |-> Cardinality({r.ip_address : r \in rows})]

\* main.py:158-168
attack_data(a) ==
    [id |-> a.id, ip_address |-> a.ip_address, port |-> a.port,
     protocol |-> a.protocol, country |-> a.country, city |-> a.city,
     latitude |-> a.latitude, longitude |-> a.longitude,
     timestamp |-> a.timestamp]

\* main.py:136-145: region, timezone and isp are not passed to Attack
new_attack(c, a, loc, t) ==
    [id |-> NoId, cap |-> c, ip_address |-> a,
     port |-> HoneypotPort, protocol |-> "TCP",
     country |-> loc.country, city |-> loc.city,
     latitude |-> loc.latitude, longitude |-> loc.longitude,
     region |-> Null, timezone |-> Null, isp |-> Null,
     timestamp |-> t]

\* main.py:173-174: an exception of add/commit/refresh ends the handler
after_commit_error_send == "send"

after_commit_error == "done"

\* ------------------------------------------------------- routes/attacks.py

OneDay == CacheDuration    \* 24 hours, in ticks

\* timedelta(hours=h), in ticks
timedelta_hours(h) == (h * OneDay) \div 24

\* An optional query parameter is <<>> when the request leaves it out and
\* <<v>> when it carries the value v.
Given(p) == p # <<>>

\* The country names and patterns of the runs, as their characters.
Chars(str) ==
    CASE str = "United States" ->
           <<"U","n","i","t","e","d"," ","S","t","a","t","e","s">>
      [] str = "United Kingdom" ->
           <<"U","n","i","t","e","d"," ","K","i","n","g","d","o","m">>
      [] str = "China"  -> <<"C","h","i","n","a">>
      [] str = "united"  -> <<"u","n","i","t","e","d">>

UpperCase == <<"A","B","C","D","E","F","G","H","I","J","K","L","M",
               "N","O","P","Q","R","S","T","U","V","W","X","Y","Z">>
LowerCase == <<"a","b","c","d","e","f","g","h","i","j","k","l","m",
               "n","o","p","q","r","s","t","u","v","w","x","y","z">>

lower(ch) ==
    IF \E i \in 1 .. 26 : UpperCase[i] = ch
    THEN LowerCase[CHOOSE i \in 1 .. 26 : UpperCase[i] = ch]
    ELSE ch

\* SQL LIKE: % stands for any run of characters, _ for any one character.
RECURSIVE like(_, _)
like(str, pattern) ==
    IF pattern = <<>> THEN str = <<>>
    ELSE IF Head(pattern) = "%"
         THEN IF like(str, Tail(pattern)) THEN TRUE
              ELSE IF str = <<>> THEN FALSE
              ELSE like(Tail(str), pattern)
    ELSE IF str = <<>> THEN FALSE
    ELSE IF Head(pattern) = "_" \/ Head(pattern) = Head(str)
         THEN like(Tail(str), Tail(pattern))
    ELSE FALSE

\* attacks.py:52  Attack.country.ilike(f"%{country}%"): lower(country) LIKE
\* lower(pattern); a NULL column matches nothing.
country_ilike(column, country) ==
    LET lowered(w) == [i \in 1 .. Len(w) |-> lower(w[i])] IN
    IF column = Null THEN FALSE
    ELSE like(lowered(Chars(column)),
              lowered(<<"%">> \o Chars(country) \o <<"%">>))

\* attacks.py:23-28: the bounds FastAPI enforces before the handler runs.
get_attacks_limit(req)  == IF Given(req.limit) THEN req.limit[1] ELSE 100
get_attacks_offset(req) == IF Given(req.offset) THEN req.offset[1] ELSE 0

get_attacks_valid(req) ==
    /\ 1 <= get_attacks_limit(req) /\ get_attacks_limit(req) <= 1000
    /\ 0 <= get_attacks_offset(req)
    /\ Given(req.port)  => (1 <= req.port[1] /\ req.port[1] <= 65535)
    /\ Given(req.hours) => (1 <= req.hours[1] /\ req.hours[1] <= 168)

\* attacks.py:51-62: the filters that the request switches on.
get_attacks_filter_no_port(rows, req, utcnow) ==
    {r \in rows :
       /\ (Given(req.country) /\ req.country[1] # "")
             => country_ilike(r.country, req.country[1])
       /\ (Given(req.protocol) /\ req.protocol[1] # "")
             => r.protocol = req.protocol[1]
       /\ Given(req.hours)
             => r.timestamp >= utcnow - timedelta_hours(req.hours[1])}

get_attacks_filter(rows, req, utcnow) ==
    {r \in rows :
       /\ (Given(req.country) /\ req.country[1] # "")
             => country_ilike(r.country, req.country[1])
       /\ (Given(req.protocol) /\ req.protocol[1] # "")
             => r.protocol = req.protocol[1]
       /\ (Given(req.port) /\ req.port[1] # 0)
             => r.port = req.port[1]
       /\ Given(req.hours)
             => r.timestamp >= utcnow - timedelta_hours(req.hours[1])}

\* attacks.py:65  order_by(desc(Attack.timestamp)): every order of the rows
\* in which timestamps never increase; rows of one timestamp come in the
\* order the database happens to produce.
order_by_desc_timestamp(rows) ==
    LET n == Cardinality(rows) IN
    {q \in [1 .. n -> rows] :
       /\ \A i, j \in 1 .. n : i # j => q[i] # q[j]
       /\ \A i, j \in 1 .. n : i < j => q[i].timestamp >= q[j].timestamp}

Min(a, b) == IF a <= b THEN a ELSE b

\* attacks.py:68  query.offset(offset).limit(limit).all()
offset_limit_unlimited(q, offset, limit) == SubSeq(q, offset + 1, Len(q))

offset_limit(q, offset, limit) ==
    SubSeq(q, offset + 1, Min(offset + limit, Len(q)))

\* attacks.py:95-98  filter(Attack.id == attack_id).first()
get_attack_first(rows, attack_id) ==
    IF attack_id \in Ids(rows)
    THEN <<CHOOSE r \in rows : r.id = attack_id>>
    ELSE <<>>

\* attacks.py:311-317: the row the route deletes, none when it answers 404.
delete_attack_upto(rows, attack_id) ==
    IF attack_id \in Ids(rows)
    THEN {r \in rows : r.id > attack_id}
    ELSE rows

delete_attack_rows(rows, attack_id) ==
    IF attack_id \in Ids(rows)
    THEN rows \ {CHOOSE r \in rows : r.id = attack_id}
    ELSE rows

\* attacks.py:331  days: int = Query(30, ge=1, le=365)
cleanup_days(req) == IF Given(req.days) THEN req.days[1] ELSE 30
cleanup_valid(req) == 1 <= cleanup_days(req) /\ cleanup_days(req) <= 365

\* attacks.py:345-349: the rows counted and deleted.
cleanup_old_rows_inclusive(rows, days, utcnow) ==
    {r \in rows : r.timestamp <= utcnow - days * OneDay}

cleanup_old_rows(rows, days, utcnow) ==
    {r \in rows : r.timestamp < utcnow - days * OneDay}

\* A request: every parameter of the four routes, left out unless given.
NoRequest == [limit |-> <<>>, offset |-> <<>>, country |-> <<>>,
              protocol |-> <<>>, port |-> <<>>, hours |-> <<>>,
              attack_id |-> <<>>, days |-> <<>>, ip_address |-> <<>>]

\* routes/attacks.py:154-164  the summary, empty
NoSummary == [total_attacks |-> 0, recent_attacks_24h |-> 0,
              last_hour_attacks |-> 0, unique_countries |-> 0,
              unique_ips |-> 0, top_ports |-> <<>>, top_countries |-> <<>>,
              top_protocols |-> <<>>]

\* geoip.py:219-224  the cache statistics, of an empty cache
NoStats == [total_entries |-> 0, valid_entries |-> 0, expired_entries |-> 0,
            cache_duration_hours |-> 24]

\* What a route answered: the request, the table before and after it, the
\* status code and, in the body, the rows, "deleted_count", the summary
\* or the risk level.
NoResponse == [op |-> "none", req |-> NoRequest, at |-> 0,
               before |-> {}, after |-> {}, status |-> 0,
               body |-> <<>>, deleted_count |-> 0,
               summary |-> NoSummary, risk_level |-> Null,
               is_private |-> <<>>, stats |-> NoStats, pages |-> <<>>]

\* models.py:57-79  to_dict, the columns the rows of the model carry
to_dict(a) ==
    [id |-> a.id, ip_address |-> a.ip_address, port |-> a.port,
     protocol |-> a.protocol, country |-> a.country, city |-> a.city,
     latitude |-> a.latitude, longitude |-> a.longitude,
     region |-> a.region, timezone |-> a.timezone, isp |-> a.isp,
     timestamp |-> a.timestamp]

to_dicts(q) == [i \in 1 .. Len(q) |-> to_dict(q[i])]

\* The parameter values the requests of the runs carry.
LimitVals    == {<<1>>, <<2>>, <<1000>>, <<1001>>}
OffsetVals   == {<<>>, <<1>>}
CountryVals  == {<<>>, <<"China">>, <<"united">>}
ProtocolVals == {<<>>, <<"SSH">>}
PortVals     == {<<>>, <<22>>}
HoursVals    == {<<>>, <<24>>}
DaysVals     == {<<>>} \cup {<<d>> : d \in 0 .. MaxDays}

GetAttacksRequests ==
    {[NoRequest EXCEPT !.limit = l, !.offset = o, !.country = c,
                       !.protocol = p, !.port = n, !.hours = h] :
        l \in LimitVals, o \in OffsetVals, c \in CountryVals,
        p \in ProtocolVals, n \in PortVals, h \in HoursVals}

\* The attacks the table holds before the routes are called, after the
\* fixture of tests/test_api.py:50-85 (with a country of demo_data.py:18):
\* timestamps "now", "now - 1 hour" (the same tick) and "now - 1 day".
SampleAttacks ==
    {[ip_address |-> <<192, 168, 1, 1>>, port |-> 22, protocol |-> "SSH",
      country |-> "United States", city |-> "New York",
      timestamp |-> OneDay],
     [ip_address |-> <<10, 0, 0, 1>>, port |-> 80, protocol |-> "HTTP",
      country |-> "China", city |-> "Beijing",
      timestamp |-> OneDay],
     [ip_address |-> <<172, 16, 0, 1>>, port |-> 22, protocol |-> "SSH",
      country |-> "United Kingdom", city |-> "London",
      timestamp |-> 0]}

\* tests/test_api.py:87-92  create_test_attacks: Attack(**attack_data), ids
\* in the order of the inserts.
create_test_attacks(attacks_data) ==
    [i \in 1 .. Len(attacks_data) |->
       [id |-> i, cap |-> i,
        ip_address |-> attacks_data[i].ip_address,
        port |-> attacks_data[i].port,
        protocol |-> attacks_data[i].protocol,
        country |-> attacks_data[i].country,
        city |-> attacks_data[i].city,
        latitude |-> 0, longitude |-> 0,
        region |-> Null, timezone |-> Null, isp |-> Null,
        timestamp |-> attacks_data[i].timestamp]]

Range(q) == {q[i] : i \in 1 .. Len(q)}

\* ------------------------------------- the summary (routes/attacks.py:110)
\* What GROUP BY column gives: one group per value of the column among the
\* rows, with count(Attack.id).
group_by_port(rows) ==
    {[port |-> p, count |-> Cardinality({r \in rows : r.port = p})] :
       p \in {r.port : r \in rows}}

group_by_country(rows) ==
    {[country |-> k, count |-> Cardinality({r \in rows : r.country = k})] :
       k \in {r.country : r \in rows}}

group_by_protocol(rows) ==
    {[protocol |-> k, count |-> Cardinality({r \in rows : r.protocol = k})] :
       k \in {r.protocol : r \in rows}}

\* .order_by(count.desc()).limit(n): every list the statement can return,
\* groups of equal count in any order.
RECURSIVE order_by_count_any(_, _)
order_by_count_any(groups, n) ==
    IF n = 0 \/ groups = {} THEN {<<>>}
    ELSE UNION {{<<g>> \o s : s \in order_by_count_any(groups \ {g}, n - 1)} :
                  g \in groups}

RECURSIVE order_by_count_desc_limit(_, _)
order_by_count_desc_limit(groups, n) ==
    IF n = 0 \/ groups = {} THEN {<<>>}
    ELSE LET top == {g \in groups : \A h \in groups : h.count <= g.count}
         IN  UNION {{<<g>> \o s :
                       s \in order_by_count_desc_limit(groups \ {g}, n - 1)} :
                      g \in top}

\* routes/attacks.py:140, 146  .limit(5)
TopLimit == 5

\* routes/attacks.py:122-128  the two trailing-window counts
recent_attacks_count(rows, utcnow, window) ==
    Cardinality({r \in rows : r.timestamp >= utcnow - window})

\* ------------------------------------------- risk level (models.py:160)
critical_ports    == {22, 3389, 5432, 3306, 1433}
high_risk_ports   == {21, 23, 25, 53, 80, 443, 993, 995}
medium_risk_ports == {110, 143, 993, 995, 587, 465}

get_risk_level_medium_first(port) ==
    IF port \in critical_ports THEN "CRITICAL"
    ELSE IF port \in medium_risk_ports THEN "MEDIUM"
    ELSE IF port \in high_risk_ports THEN "HIGH"
    ELSE "LOW"

get_risk_level(port) ==
    IF port \in critical_ports THEN "CRITICAL"
    ELSE IF port \in high_risk_ports THEN "HIGH"
    ELSE IF port \in medium_risk_ports THEN "MEDIUM"
    ELSE "LOW"

\* ------------------------- generated rows (populate_fake_attacks.py:139)
\* The attack_data the generator saves: sample i has its own port and
\* country; the sixth shares the address of the first.
AttackPorts     == <<22, 80, 143, 9999, 993, 995, 2222>>
AttackCountries == <<"United States", "China", "Germany", "Russia",
                     "France", "Brazil", "Japan">>

generate_attack_data(i, t) ==
    [ip_address |-> <<10, 0, 0, IF i = 6 THEN 1 ELSE i>>,
     port |-> AttackPorts[i], protocol |-> "TCP",
     country |-> AttackCountries[i], city |-> "City_1",
     timestamp |-> t]

\* How often each sample is generated in one run: not at all, i times or
\* i + 1 times (equal counts happen between neighbours only).
SampleCounts ==
    {[i \in 1 .. NumSamples |-> IF pick[i] = 0 THEN 0 ELSE i + pick[i] - 1] :
       pick \in [1 .. NumSamples -> 0 .. 2]}

RECURSIVE generated_list(_, _, _)
generated_list(counts, i, t) ==
    IF i = 0 THEN <<>>
    ELSE generated_list(counts, i - 1, t)
           \o [j \in 1 .. counts[i] |-> generate_attack_data(i, t)]

\* ------------------------------------------------------------------ state
VARIABLES
    now,                \* the clock (UTC), in ticks
    utcoffset,          \* local time minus UTC: datetime.now() - utcnow()
    pc,                 \* position of each connection's thread
    ip,                 \* address[0] of each accepted connection
    acceptedAt,         \* clock value when accept() returned it
    location,           \* result of get_location, per connection
    attack,             \* the Attack object of handle_new_attack
    wake,               \* end of the asyncio.sleep of _rate_limit
    outcome,            \* how the connection's external lookup ended
    nlookups,           \* external lookups issued by the connection
    fresh,              \* at its cache check: address resolved < 24h ago
    stale,              \* at its cache check: entry present but expired
    cache,              \* GeoIPService.cache
    last_request_time,  \* GeoIPService.last_request_time
    resolved,           \* address -> time get_location last returned a
                        \* looked-up record for it (geoip.py:68)
    store,              \* rows of table attacks
    appendLog,          \* rows in the order they were committed
    bcastLog,           \* payloads in the order send_attack was called
    lookupAt,           \* per connection: when its external lookup started
    active_connections, \* ConnectionManager.active_connections (a list)
    transport,          \* per websocket: state of the client's transport
    epc,                \* per websocket: position of websocket_endpoint
    bpc,                \* per publisher: position of send_attack
    snapshot,           \* per publisher: the copy taken by send_attack
    idx,                \* per publisher: position in the copy
    sent,               \* per publisher: the send_json calls it made
    resp,               \* the last response of the REST routes
    program,            \* the entry point that runs: main.py or app.py
    running,            \* per port: HoneypotServer.running
    socket,             \* per port: HoneypotServer.socket
    lpc,                \* per port: position of the server thread
    spc,                \* per port: position of the caller of stop()
    bindFailed,         \* per port: bind / listen raised
    crashed,            \* per port: accept() raised while running
    hpc,                \* per accepted connection: position of its handling
    hport,              \* per accepted connection: the port that accepted it
    hip,                \* per accepted connection: address[0]
    hread,              \* per accepted connection: how the read ended
    handoffs,           \* per accepted connection: the captures handed on
    self_running,       \* one HoneypotServer: self.running
    self_socket,        \* self.socket: None (0) or the socket object
    server_thread,      \* self.server_thread: None (0) or the thread
    sockobj,            \* per socket object: its state
    thr,                \* per server thread: its position in _run_server
    blocked_on,         \* per server thread: the socket its accept() is on
    cpc,                \* per caller: its position in start() or stop()
    running_set_by      \* the server thread of the start() that last set
                        \* self.running

vars == <<now, utcoffset, pc, ip, acceptedAt, location, attack, wake,
          outcome, nlookups, fresh, stale, cache, last_request_time,
          resolved, store, appendLog, bcastLog, lookupAt,
          active_connections, transport, epc, bpc, snapshot, idx, sent,
          resp, program, running, socket, lpc, spc, bindFailed, crashed,
          hpc, hport, hip, hread, handoffs, self_running, self_socket,
          server_thread, sockobj, thr, blocked_on, cpc, running_set_by>>

connVars == <<ip, acceptedAt>>
geoVars  == <<cache, last_request_time, resolved>>
dbVars   == <<store, appendLog>>
ghostGeo == <<outcome, nlookups, fresh, stale, lookupAt>>
dispVars == <<active_connections, transport, epc, bpc, snapshot, idx, sent>>
apiVars  == <<resp>>
srvVars  == <<running, socket, lpc, spc, bindFailed, crashed>>
hdlVars  == <<hpc, hport, hip, hread, handoffs>>
lifeVars == <<self_running, self_socket, server_thread, sockobj, thr,
              blocked_on, cpc, running_set_by>>
listenVars == <<program, srvVars, hdlVars, lifeVars>>

UtcOffsets == {0}

datetime_utcnow == now
datetime_now    == now + utcoffset
time_time       == now

EmptyDict == [x \in {} |-> 0]     \* Python {}

\* honeypot.py:22-36, app.py:32-35  no program started: no listener runs, no
\* connection was accepted
ListenInit ==
    /\ program = "none"
    /\ running = [l \in Ports |-> FALSE]
    /\ socket = [l \in Ports |-> "None"]
    /\ lpc = [l \in Ports |-> "none"]
    /\ spc = [l \in Ports |-> "none"]
    /\ bindFailed = [l \in Ports |-> FALSE]
    /\ crashed = [l \in Ports |-> FALSE]
    /\ hpc = [h \in Handlers |-> "idle"]
    /\ hport = [h \in Handlers |-> 0]
    /\ hip = [h \in Handlers |-> PrivateAddr]
    /\ hread = [h \in Handlers |-> "none"]
    /\ handoffs = [h \in Handlers |-> <<>>]
    /\ self_running = FALSE
    /\ self_socket = 0
    /\ server_thread = 0
    /\ sockobj = [t \in 1 .. NumThreads |-> "none"]
    /\ thr = [t \in 1 .. NumThreads |-> "unborn"]
    /\ blocked_on = [t \in 1 .. NumThreads |-> 0]
    /\ cpc = [k \in 1 .. NumCallers |-> "idle"]
    /\ running_set_by = 0

Init ==
    /\ now = RateLimitDelay     \* time.time() is far from the initial 0
    /\ utcoffset \in UtcOffsets
    /\ pc = [c \in Conns |-> "idle"]
    /\ ip = [c \in Conns |-> PrivateAddr]
    /\ acceptedAt = [c \in Conns |-> 0]
    /\ location = EmptyDict
    /\ attack = EmptyDict
    /\ wake = [c \in Conns |-> 0]
    /\ outcome = [c \in Conns |-> "none"]
    /\ nlookups = [c \in Conns |-> 0]
    /\ fresh = [c \in Conns |-> FALSE]
    /\ stale = [c \in Conns |-> FALSE]
    /\ cache = EmptyDict
    /\ last_request_time = 0
    /\ resolved = EmptyDict
    /\ store = {}
    /\ appendLog = <<>>
    /\ bcastLog = <<>>
    /\ lookupAt = [c \in Conns |-> 0]
    /\ active_connections = <<>>
    /\ transport = [w \in WebSockets |-> "new"]
    /\ epc = [w \in WebSockets |-> "idle"]
    /\ bpc = [b \in Publishers |-> "idle"]
    /\ snapshot = [b \in Publishers |-> <<>>]
    /\ idx = [b \in Publishers |-> 0]
    /\ sent = [b \in Publishers |-> <<>>]
    /\ resp = NoResponse
    /\ ListenInit

Put(f, k, v) == [x \in (DOMAIN f) \cup {k} |-> IF x = k THEN v ELSE f[x]]

\* ---------------------------------------------------------------- actions

\* The clock advances.
Tick ==
    /\ now < MaxTime
    /\ now' = now + 1
    /\ UNCHANGED <<utcoffset, pc, ip, acceptedAt, location, attack, wake,
                   outcome, nlookups, fresh, stale, cache,
                   last_request_time, resolved, store, appendLog, bcastLog,
                   lookupAt, dispVars, listenVars, apiVars>>

\* honeypot.py:98-106: accept() returns a connection and its thread starts.
\* Connections are numbered in the order they are accepted.
Accept(c) ==
    /\ pc[c] = "idle"
    /\ IF c = 1 THEN TRUE ELSE pc[c - 1] # "idle"
    /\ \E a \in Addrs : ip' = [ip EXCEPT ![c] = a]
    /\ acceptedAt' = [acceptedAt EXCEPT ![c] = now]
    /\ pc' = [pc EXCEPT ![c] = "accepted"]
    /\ UNCHANGED <<now, utcoffset, location, attack, wake, ghostGeo,
                   geoVars, dbVars, bcastLog, dispVars, listenVars, apiVars>>

\* honeypot.py:131-162: recv (data, timeout or error), fake banner, then the
\* callback handle_new_attack(ip_address, self.port, "TCP") is run.
HandleConnection(c) ==
    /\ pc[c] = "accepted"
    /\ pc' = [pc EXCEPT ![c] = "get_location"]
    /\ UNCHANGED <<now, utcoffset, connVars, location, attack, wake,
                   ghostGeo, geoVars, dbVars, bcastLog,
                   dispVars, listenVars, apiVars>>

\* geoip.py:43-56: private range, then cache, else on to the rate limiter.
GetLocation(c) ==
    /\ pc[c] = "get_location"
    /\ LET a == ip[c] IN
       /\ fresh' = [fresh EXCEPT ![c] =
                      /\ a \in DOMAIN resolved
                      /\ now - resolved[a] < CacheDuration]
       /\ stale' = [stale EXCEPT ![c] =
                      /\ a \in DOMAIN cache
                      /\ ~ (datetime_now - cache[a].cached_at < CacheDuration)]
       /\ IF is_private_ip(a)
          THEN /\ location' = Put(location, c, get_private_ip_location)
               /\ pc' = [pc EXCEPT ![c] = "build"]
          ELSE IF a \in DOMAIN cache /\ is_cache_valid(cache[a], datetime_now)
          THEN /\ location' = Put(location, c, cache[a].location)
               /\ pc' = [pc EXCEPT ![c] = "build"]
          ELSE /\ location' = location
               /\ pc' = [pc EXCEPT ![c] = "rate_limit"]
    /\ UNCHANGED <<now, utcoffset, connVars, attack, wake, outcome,
                   nlookups, lookupAt, geoVars, dbVars, bcastLog,
                   dispVars, listenVars,
                   apiVars>>

\* geoip.py:112-117: read the clock and last_request_time, start the sleep.
RateLimit(c) ==
    /\ pc[c] = "rate_limit"
    /\ LET time_since_last_request == time_time - last_request_time IN
       wake' = [wake EXCEPT ![c] =
                  IF time_since_last_request < RateLimitDelay
                  THEN now + (RateLimitDelay - time_since_last_request)
                  ELSE now]
    /\ pc' = [pc EXCEPT ![c] = "sleep"]
    /\ UNCHANGED <<now, utcoffset, connVars, location, attack, ghostGeo,
                   geoVars, dbVars, bcastLog, dispVars, listenVars, apiVars>>

\* geoip.py:119 and 84-87: the sleep is over, last_request_time is set and
\* the request to the API is sent.
SendRequest(c) ==
    /\ pc[c] = "sleep"
    /\ now >= wake[c]
    /\ last_request_time' = time_time
    /\ nlookups' = [nlookups EXCEPT ![c] = @ + 1]
    /\ lookupAt' = [lookupAt EXCEPT ![c] = time_time]
    /\ pc' = [pc EXCEPT ![c] = "fetch"]
    /\ UNCHANGED <<now, utcoffset, connVars, location, attack, wake,
                   outcome, fresh, stale, cache, resolved, dbVars, bcastLog,
                   dispVars, listenVars, apiVars>>

\* geoip.py:59-72: the request ends.  An answer (of any status) is cached
\* and returned; an exception or timeout goes to the handler of line 70.
FetchReturn(c) ==
    /\ pc[c] = "fetch"
    /\ \E o \in Outcomes :
        /\ outcome' = [outcome EXCEPT ![c] = o]
        /\ IF o \in Raising
           THEN /\ UNCHANGED <<cache, resolved>>
                /\ IF get_location_except.raised
                   THEN /\ pc' = [pc EXCEPT ![c] = "done"]   \* main.py:173
                        /\ location' = location
                   ELSE /\ pc' = [pc EXCEPT ![c] = "build"]
                        /\ location' = Put(location, c,
                                           get_location_except.value)
           ELSE LET l == fetch_location_from_api(ip[c], o) IN
                /\ cache' = cache_put(cache, ip[c], l, datetime_now)
                /\ resolved' = Put(resolved, ip[c], now)
                /\ location' = Put(location, c, l)
                /\ pc' = [pc EXCEPT ![c] = "build"]
    /\ UNCHANGED <<now, utcoffset, connVars, attack, wake, nlookups, fresh,
                   stale, lookupAt, last_request_time, dbVars, bcastLog,
                   dispVars, listenVars, apiVars>>

\* main.py:136-145: the Attack object, stamped with datetime.now().
BuildAttack(c) ==
    /\ pc[c] = "build"
    /\ attack' = Put(attack, c,
                     new_attack(c, ip[c], location[c], datetime_now))
    /\ pc' = [pc EXCEPT ![c] = "commit"]
    /\ UNCHANGED <<now, utcoffset, connVars, location, wake, ghostGeo,
                   geoVars, dbVars, bcastLog, dispVars, listenVars, apiVars>>

\* main.py:148-155: add, commit, refresh, close.  The session's transaction
\* is taken as the database runs it: the insert either commits the whole row
\* under a new id or raises (storage unavailable).
Commit(c) ==
    /\ pc[c] = "commit"
    /\ \E ok \in BOOLEAN :
        IF ok
        THEN LET row == [attack[c] EXCEPT !.id = NextId(store)] IN
             /\ store' = store \cup {row}
             /\ appendLog' = Append(appendLog, row)
             /\ attack' = [attack EXCEPT ![c] = row]
             /\ pc' = [pc EXCEPT ![c] = "send"]
        ELSE /\ pc' = [pc EXCEPT ![c] = after_commit_error]
             /\ UNCHANGED <<store, appendLog, attack>>
    /\ UNCHANGED <<now, utcoffset, connVars, location, wake, ghostGeo,
                   geoVars, bcastLog, dispVars, listenVars, apiVars>>

\* main.py:158-171: manager.send_attack(attack_data) is called.
SendAttack(c) ==
    /\ pc[c] = "send"
    /\ bcastLog' = Append(bcastLog, [cap |-> c, data |-> attack_data(attack[c])])
    /\ pc' = [pc EXCEPT ![c] = "done"]
    /\ UNCHANGED <<now, utcoffset, connVars, location, attack, wake,
                   ghostGeo, geoVars, dbVars, dispVars, listenVars, apiVars>>

Next ==
    \/ Tick
    \/ \E c \in Conns : Accept(c)
    \/ \E c \in Conns : HandleConnection(c)
    \/ \E c \in Conns : GetLocation(c)
    \/ \E c \in Conns : RateLimit(c)
    \/ \E c \in Conns : SendRequest(c)
    \/ \E c \in Conns : FetchReturn(c)
    \/ \E c \in Conns : BuildAttack(c)
    \/ \E c \in Conns : Commit(c)
    \/ \E c \in Conns : SendAttack(c)

Spec == Init /\ [][Next]_vars

\* ------------------------------------------- the store operations, one by one
\* Ingest of connections from a private address (no blocking call between
\* accept and commit), interleaved with the two deleting endpoints.

pipeVars == <<utcoffset, pc, ip, acceptedAt, location, attack, wake, outcome,
              nlookups, fresh, stale, cache, last_request_time, resolved,
              lookupAt, dispVars, listenVars>>

\* main.py:120-174 for ip_address in a private range: geoip.py:45-46 returns
\* at once, then build, commit, send.  (A commit that raises leaves the store
\* as it was and sends nothing: no step.)
IngestPrivate ==
    /\ Len(appendLog) < MaxAppends
    /\ is_private_ip(PrivateAddr)
    /\ LET a   == new_attack(Len(appendLog) + 1, PrivateAddr,
                             get_private_ip_location, datetime_now)
           row == [a EXCEPT !.id = NextId(store)]
       IN  /\ store' = store \cup {row}
           /\ appendLog' = Append(appendLog, row)
           /\ bcastLog' = Append(bcastLog,
                                 [cap |-> row.cap, data |-> attack_data(row)])
    /\ UNCHANGED <<now, pipeVars, apiVars>>

\* routes/attacks.py:296-327; an id that is not stored gives 404.
DeleteAttack(attack_id) ==
    /\ resp = NoResponse
    /\ store' = delete_attack_rows(store, attack_id)
    /\ resp' = [NoResponse EXCEPT
                  !.op = "delete_attack",
                  !.req = [NoRequest EXCEPT !.attack_id = <<attack_id>>],
                  !.at = datetime_utcnow,
                  !.before = store,
                  !.after = delete_attack_rows(store, attack_id),
                  !.status = IF attack_id \in Ids(store) THEN 200 ELSE 404]
    /\ UNCHANGED <<now, pipeVars, appendLog, bcastLog>>

\* routes/attacks.py:329-367; 'days' outside 1..365 is answered 422 before
\* the handler runs.
CleanupOldAttacks(days) ==
    LET req == [NoRequest EXCEPT !.days = days]
        old == IF cleanup_valid(req)
               THEN cleanup_old_rows(store, cleanup_days(req), datetime_utcnow)
               ELSE {}
    IN  /\ resp = NoResponse
        /\ store' = store \ old
        /\ resp' = [NoResponse EXCEPT
                      !.op = "cleanup_old_attacks",
                      !.req = req,
                      !.at = datetime_utcnow,
                      !.before = store,
                      !.after = store \ old,
                      !.status = IF cleanup_valid(req) THEN 200 ELSE 422,
                      !.deleted_count = Cardinality(old)]
        /\ UNCHANGED <<now, pipeVars, appendLog, bcastLog>>

\* The response goes out and the request is over.
SendResponse ==
    /\ resp # NoResponse
    /\ resp' = NoResponse
    /\ UNCHANGED <<now, pipeVars, dbVars, bcastLog>>

\* The clock advances between two requests.
StoreTick ==
    /\ resp = NoResponse
    /\ now < MaxStoreTime
    /\ now' = now + 1
    /\ UNCHANGED <<pipeVars, store, appendLog, bcastLog, apiVars>>

NextStore ==
    \/ StoreTick
    \/ IngestPrivate
    \/ \E i \in 1 .. MaxAppends : DeleteAttack(i)
    \/ \E days \in DaysVals : CleanupOldAttacks(days)
    \/ SendResponse

SpecStore == Init /\ [][NextStore]_vars

\* ------------------------------------------------ the REST routes on a table
\* The table holds up to MaxRows sample attacks when the server starts; the
\* routes are called one at a time (no handler awaits before it returns)
\* while the clock advances.

\* routes/attacks.py:21-78
GetAttacks(req) ==
    /\ resp = NoResponse
    /\ IF get_attacks_valid(req)
       THEN \E q \in order_by_desc_timestamp(
                        get_attacks_filter(store, req, datetime_utcnow)) :
               resp' = [NoResponse EXCEPT
                          !.op = "get_attacks", !.req = req,
                          !.at = datetime_utcnow,
                          !.before = store, !.after = store,
                          !.status = 200,
                          !.body = to_dicts(offset_limit(q,
                                      get_attacks_offset(req),
                                      get_attacks_limit(req)))]
       ELSE resp' = [NoResponse EXCEPT
                       !.op = "get_attacks", !.req = req,
                       !.at = datetime_utcnow,
                       !.before = store, !.after = store,
                       !.status = 422]
    /\ UNCHANGED <<now, pipeVars, dbVars, bcastLog>>

\* routes/attacks.py:80-108
GetAttack(attack_id) ==
    /\ resp = NoResponse
    /\ resp' = [NoResponse EXCEPT
                  !.op = "get_attack",
                  !.req = [NoRequest EXCEPT !.attack_id = <<attack_id>>],
                  !.at = datetime_utcnow,
                  !.before = store, !.after = store,
                  !.status = IF get_attack_first(store, attack_id) = <<>>
                             THEN 404 ELSE 200,
                  !.body = to_dicts(get_attack_first(store, attack_id))]
    /\ UNCHANGED <<now, pipeVars, dbVars, bcastLog>>

InitApi ==
    /\ now = OneDay
    /\ utcoffset \in UtcOffsets
    /\ pc = [c \in Conns |-> "idle"]
    /\ ip = [c \in Conns |-> PrivateAddr]
    /\ acceptedAt = [c \in Conns |-> 0]
    /\ location = EmptyDict
    /\ attack = EmptyDict
    /\ wake = [c \in Conns |-> 0]
    /\ outcome = [c \in Conns |-> "none"]
    /\ nlookups = [c \in Conns |-> 0]
    /\ fresh = [c \in Conns |-> FALSE]
    /\ stale = [c \in Conns |-> FALSE]
    /\ cache = EmptyDict
    /\ last_request_time = 0
    /\ resolved = EmptyDict
    /\ \E n \in 0 .. MaxRows : \E attacks_data \in [1 .. n -> SampleAttacks] :
          /\ store = Range(create_test_attacks(attacks_data))
          /\ appendLog = create_test_attacks(attacks_data)
    /\ bcastLog = <<>>
    /\ lookupAt = [c \in Conns |-> 0]
    /\ active_connections = <<>>
    /\ transport = [w \in WebSockets |-> "new"]
    /\ epc = [w \in WebSockets |-> "idle"]
    /\ bpc = [b \in Publishers |-> "idle"]
    /\ snapshot = [b \in Publishers |-> <<>>]
    /\ idx = [b \in Publishers |-> 0]
    /\ sent = [b \in Publishers |-> <<>>]
    /\ resp = NoResponse
    /\ ListenInit

NextApi ==
    \/ StoreTick
    \/ \E req \in GetAttacksRequests : GetAttacks(req)
    \/ \E i \in 1 .. MaxRows + 1 : GetAttack(i)
    \/ \E i \in 1 .. MaxRows + 1 : DeleteAttack(i)
    \/ \E days \in DaysVals : CleanupOldAttacks(days)
    \/ SendResponse

SpecApi == InitApi /\ [][NextApi]_vars

\* ------------------------------------------------------ SpecSummary
\* A generated table, then the summary route and the risk level of its rows.

\* populate_fake_attacks.py:270-316  generate_attacks on an empty table:
\* each attack_data is saved (251-257), ids in the order of the inserts.
GenerateAttacks(counts) ==
    /\ resp = NoResponse
    /\ store = {}
    /\ appendLog = <<>>
    /\ LET attacks == generated_list(counts, NumSamples, datetime_utcnow)
           rows == [i \in 1 .. Len(attacks) |->
                      [id |-> i, cap |-> i,
                       ip_address |-> attacks[i].ip_address,
                       port |-> attacks[i].port,
                       protocol |-> attacks[i].protocol,
                       country |-> attacks[i].country,
                       city |-> attacks[i].city,
                       latitude |-> 0, longitude |-> 0,
                       region |-> "Region_1", timezone |-> "UTC",
                       isp |-> "Verizon",
                       timestamp |-> attacks[i].timestamp]]
       IN  /\ store' = Range(rows)
           /\ appendLog' = rows
    /\ UNCHANGED <<now, pipeVars, bcastLog, apiVars>>

\* routes/attacks.py:110-171
GetAttackSummary ==
    /\ resp = NoResponse
    /\ \E top_ports \in order_by_count_desc_limit(group_by_port(store),
                                                  TopLimit) :
       \E top_countries \in order_by_count_desc_limit(group_by_country(store),
                                                      TopLimit) :
       \E top_protocols \in
            order_by_count_desc_limit(group_by_protocol(store),
                                      Cardinality(group_by_protocol(store))) :
          resp' = [NoResponse EXCEPT
                     !.op = "get_attack_summary",
                     !.at = datetime_utcnow,
                     !.before = store, !.after = store,
                     !.status = 200,
                     !.summary =
                        [total_attacks |->
                            get_attack_summary(store).total_attacks,
                         recent_attacks_24h |->
                            recent_attacks_count(store, datetime_utcnow,
                                                 timedelta_hours(24)),
                         last_hour_attacks |->
                            recent_attacks_count(store, datetime_utcnow,
                                                 timedelta_hours(1)),
                         unique_countries |->
                            get_attack_summary(store).unique_countries,
                         unique_ips |->
                            get_attack_summary(store).unique_ips,
                         top_ports |-> top_ports,
                         top_countries |-> top_countries,
                         top_protocols |-> top_protocols]]
    /\ UNCHANGED <<now, pipeVars, dbVars, bcastLog>>

\* models.py:160-183  Attack.get_risk_level on a stored row
GetRiskLevel(a) ==
    /\ resp = NoResponse
    /\ a \in store
    /\ resp' = [NoResponse EXCEPT
                  !.op = "get_risk_level",
                  !.req = [NoRequest EXCEPT !.port = <<a.port>>],
                  !.at = datetime_utcnow,
                  !.before = store, !.after = store,
                  !.risk_level = get_risk_level(a.port)]
    /\ UNCHANGED <<now, pipeVars, dbVars, bcastLog>>

NextSummary ==
    \/ \E counts \in SampleCounts : GenerateAttacks(counts)
    \/ GetAttackSummary
    \/ \E a \in store : GetRiskLevel(a)
    \/ SendResponse

SpecSummary == Init /\ [][NextSummary]_vars

\* --------------------------------------- ConnectionManager (main.py:57-85)
\* The endpoint of each websocket runs on the server's event loop; every
\* send_attack runs on the event loop of the connection thread that
\* captured the attack (honeypot.py:154-165).  The list operations of the
\* two sides interleave, also between the test and the remove of
\* disconnect.

restVars == <<now, utcoffset, pc, connVars, location, attack, wake, ghostGeo,
              geoVars, dbVars, bcastLog, apiVars, listenVars>>

\* main.py:71  websocket in self.active_connections
Contains(list, x) == \E i \in 1 .. Len(list) : list[i] = x

\* main.py:72  list.remove(x): the first occurrence goes.
list_remove_nothing(list, x) == list

list_remove(list, x) ==
    LET i == CHOOSE k \in 1 .. Len(list) :
                /\ list[k] = x
                /\ \A j \in 1 .. k - 1 : list[j] # x
    IN  SubSeq(list, 1, i - 1) \o SubSeq(list, i + 1, Len(list))

\* main.py:80: the loop goes on to the next connection of the copy or ends.
next_bpc(b) == IF idx[b] < Len(snapshot[b]) THEN "iter" ELSE "done"
next_idx(b) == IF idx[b] < Len(snapshot[b]) THEN idx[b] + 1 ELSE idx[b]

\* main.py:206 and 63-67: accept the websocket, append it to the list.
WsConnect(w) ==
    /\ epc[w] = "idle"
    /\ transport' = [transport EXCEPT ![w] = "open"]
    /\ active_connections' = Append(active_connections, w)
    /\ epc' = [epc EXCEPT ![w] = "receive"]
    /\ UNCHANGED <<restVars, bpc, snapshot, idx, sent>>

\* The client closes its side.
ClientClose(w) ==
    /\ transport[w] = "open"
    /\ transport' = [transport EXCEPT ![w] = "closed"]
    /\ UNCHANGED <<restVars, active_connections, epc, bpc, snapshot, idx,
                   sent>>

\* main.py:210-213 and 71: receive_text raises WebSocketDisconnect, the
\* handler calls disconnect, which tests the list.
EndpointDisconnect(w) ==
    /\ epc[w] = "receive"
    /\ transport[w] = "closed"
    /\ epc' = [epc EXCEPT ![w] =
                 IF Contains(active_connections, w) THEN "remove"
                 ELSE "ended"]
    /\ UNCHANGED <<restVars, active_connections, transport, bpc, snapshot,
                   idx, sent>>

\* main.py:72: the remove; ValueError when the websocket left the list
\* since the test.
EndpointRemove(w) ==
    /\ epc[w] = "remove"
    /\ IF Contains(active_connections, w)
       THEN /\ active_connections' = list_remove(active_connections, w)
            /\ epc' = [epc EXCEPT ![w] = "ended"]
       ELSE /\ active_connections' = active_connections
            /\ epc' = [epc EXCEPT ![w] = "raised"]
    /\ UNCHANGED <<restVars, transport, bpc, snapshot, idx, sent>>

\* main.py:77-79: nothing to do on an empty list, else copy it.
SendAttackCopy(b) ==
    /\ bpc[b] = "idle"
    /\ IF active_connections = <<>>
       THEN /\ bpc' = [bpc EXCEPT ![b] = "done"]
            /\ UNCHANGED <<snapshot, idx>>
       ELSE /\ snapshot' = [snapshot EXCEPT ![b] = active_connections]
            /\ idx' = [idx EXCEPT ![b] = 1]
            /\ bpc' = [bpc EXCEPT ![b] = "iter"]
    /\ UNCHANGED <<restVars, active_connections, transport, epc, sent>>

\* main.py:81-85 and 71: send_json to the next connection of the copy; it
\* raises on a closed transport and may raise on an open one.  The handler
\* calls disconnect, which tests the list.
SendJson(b) ==
    /\ bpc[b] = "iter"
    /\ LET w == snapshot[b][idx[b]] IN
       \E ok \in IF transport[w] = "open" THEN BOOLEAN ELSE {FALSE} :
          /\ sent' = [sent EXCEPT ![b] = Append(@, [to |-> w, ok |-> ok])]
          /\ IF ~ ok /\ Contains(active_connections, w)
             THEN /\ bpc' = [bpc EXCEPT ![b] = "remove"]
                  /\ idx' = idx
             ELSE /\ bpc' = [bpc EXCEPT ![b] = next_bpc(b)]
                  /\ idx' = [idx EXCEPT ![b] = next_idx(b)]
    /\ UNCHANGED <<restVars, active_connections, transport, epc, snapshot>>

\* main.py:72 inside the handler of line 83: the remove; ValueError leaves
\* send_attack when the websocket left the list since the test.
SendFailedRemove(b) ==
    /\ bpc[b] = "remove"
    /\ LET w == snapshot[b][idx[b]] IN
       IF Contains(active_connections, w)
       THEN /\ active_connections' = list_remove(active_connections, w)
            /\ bpc' = [bpc EXCEPT ![b] = next_bpc(b)]
            /\ idx' = [idx EXCEPT ![b] = next_idx(b)]
       ELSE /\ active_connections' = active_connections
            /\ bpc' = [bpc EXCEPT ![b] = "raised"]
            /\ idx' = idx
    /\ UNCHANGED <<restVars, transport, epc, snapshot, sent>>

NextDispatch ==
    \/ \E w \in WebSockets : WsConnect(w)
    \/ \E w \in WebSockets : ClientClose(w)
    \/ \E w \in WebSockets : EndpointDisconnect(w)
    \/ \E w \in WebSockets : EndpointRemove(w)
    \/ \E b \in Publishers : SendAttackCopy(b)
    \/ \E b \in Publishers : SendJson(b)
    \/ \E b \in Publishers : SendFailedRemove(b)

SpecDispatch == Init /\ [][NextDispatch]_vars

\* ------------------------------------------------ listeners and captures
\* honeypot.py (run by main.py on HoneypotPort) and the HoneypotServer of
\* app.py (one per port of HONEYPOT_PORTS).  Every thread is one position:
\* the server thread of a port (lpc), a caller of stop() (spc), the thread of
\* an accepted connection (hpc).  accept() is the only call of the server
\* thread that blocks; a socket closed by another thread while accept() is
\* blocked in it either makes accept() raise or leaves it blocked until a
\* connection arrives, as the platform has it.

ingestVars == <<now, utcoffset, pc, connVars, location, attack, wake,
                ghostGeo, geoVars, dbVars, bcastLog, dispVars, apiVars,
                lifeVars>>

\* honeypot.py:136-154  where _handle_connection goes after the read: the
\* callback, for every outcome of recv / send
after_read_skip_on_error(read) ==
    IF read = "error" THEN "close" ELSE "callback"

after_read(read) == "callback"

ReadOutcomes == {"data", "timeout", "error"}

\* honeypot.py:160-162  the capture handed to on_attack_callback
capture(a, port) == [ip_address |-> a, port |-> port, protocol |-> "TCP"]

\* main.py:90-107  startup_event: HoneypotServer(port=2222, ...) and a thread
\* that will call its start()
StartupEvent ==
    /\ program = "none"
    /\ program' = "main"
    /\ lpc' = [lpc EXCEPT ![HoneypotPort] = "start"]
    /\ UNCHANGED <<ingestVars, running, socket, spc, bindFailed, crashed,
                   hdlVars>>

\* honeypot.py:38-52  start(): nothing if running, else running = True and
\* the server thread is started
Start(l) ==
    /\ program = "main"
    /\ lpc[l] = "start"
    /\ IF running[l]
       THEN /\ lpc' = [lpc EXCEPT ![l] = "ended"]
            /\ UNCHANGED running
       ELSE /\ running' = [running EXCEPT ![l] = TRUE]
            /\ lpc' = [lpc EXCEPT ![l] = "bind"]
    /\ UNCHANGED <<ingestVars, program, socket, spc, bindFailed, crashed,
                   hdlVars>>

\* honeypot.py:84-93  socket(), setsockopt, bind, listen; an error goes to
\* the outer except (116-117) and to _cleanup
RunServerBind(l) ==
    /\ program = "main"
    /\ lpc[l] = "bind"
    /\ \E ok \in BOOLEAN :
          IF ok
          THEN /\ socket' = [socket EXCEPT ![l] = "listening"]
               /\ lpc' = [lpc EXCEPT ![l] = "loop"]
               /\ UNCHANGED bindFailed
          ELSE /\ socket' = [socket EXCEPT ![l] = "unbound"]
               /\ lpc' = [lpc EXCEPT ![l] = "cleanup"]
               /\ bindFailed' = [bindFailed EXCEPT ![l] = TRUE]
    /\ UNCHANGED <<ingestVars, program, running, spc, crashed, hdlVars>>

\* honeypot.py:95  while self.running
LoopCheck(l) ==
    /\ program = "main"
    /\ lpc[l] = "loop"
    /\ lpc' = [lpc EXCEPT ![l] = IF running[l] THEN "accept" ELSE "cleanup"]
    /\ UNCHANGED <<ingestVars, program, running, socket, spc, bindFailed,
                   crashed, hdlVars>>

\* honeypot.py:97-106  accept() returns a connection and its thread starts
AcceptConnection(l, h, a) ==
    /\ program = "main"
    /\ lpc[l] = "accept"
    /\ socket[l] \in {"listening", "closed"}
    /\ hpc[h] = "idle"
    /\ hpc' = [hpc EXCEPT ![h] = "recv"]
    /\ hport' = [hport EXCEPT ![h] = l]
    /\ hip' = [hip EXCEPT ![h] = a]
    /\ lpc' = [lpc EXCEPT ![l] = "loop"]
    /\ UNCHANGED <<ingestVars, program, running, socket, spc, bindFailed,
                   crashed, hread, handoffs>>

\* honeypot.py:108-114  accept() raises: logged if running, then break
AcceptError(l) ==
    /\ program = "main"
    /\ lpc[l] = "accept"
    /\ lpc' = [lpc EXCEPT ![l] = "cleanup"]
    /\ crashed' = [crashed EXCEPT ![l] = running[l]]
    /\ UNCHANGED <<ingestVars, program, running, socket, spc, bindFailed,
                   hdlVars>>

\* honeypot.py:118-119, 175-185  finally: _cleanup()
Cleanup(l) ==
    /\ program = "main"
    /\ lpc[l] = "cleanup"
    /\ socket' = [socket EXCEPT ![l] = "None"]
    /\ running' = [running EXCEPT ![l] = FALSE]
    /\ lpc' = [lpc EXCEPT ![l] = "ended"]
    /\ UNCHANGED <<ingestVars, program, spc, bindFailed, crashed, hdlVars>>

\* main.py:109-116 calls honeypot.py:54-64  stop(): nothing if not running,
\* else running = False
StopBegin(l) ==
    /\ program = "main"
    /\ l = HoneypotPort
    /\ spc[l] = "none"
    /\ IF running[l]
       THEN /\ running' = [running EXCEPT ![l] = FALSE]
            /\ spc' = [spc EXCEPT ![l] = "close"]
       ELSE /\ spc' = [spc EXCEPT ![l] = "not_running"]
            /\ UNCHANGED running
    /\ UNCHANGED <<ingestVars, program, socket, lpc, bindFailed, crashed,
                   hdlVars>>

\* honeypot.py:66-70  if self.socket: close it
StopClose(l) ==
    /\ spc[l] = "close"
    /\ socket' = [socket EXCEPT ![l] = IF socket[l] = "None" THEN "None"
                                        ELSE "closed"]
    /\ spc' = [spc EXCEPT ![l] = "join"]
    /\ UNCHANGED <<ingestVars, program, running, lpc, bindFailed, crashed,
                   hdlVars>>

\* honeypot.py:72-75  join(timeout=5): returns when the server thread has
\* ended, or after the timeout (the thread is still blocked in accept)
StopJoin(l) ==
    /\ spc[l] = "join"
    /\ lpc[l] \in {"ended", "accept"}
    /\ spc' = [spc EXCEPT ![l] = "returned"]
    /\ UNCHANGED <<ingestVars, program, running, socket, lpc, bindFailed,
                   crashed, hdlVars>>

\* honeypot.py:136-151  settimeout(5.0), recv, send of the banner: data, a
\* timeout or an error, each caught
HandleRead(h) ==
    /\ hpc[h] = "recv"
    /\ \E read \in ReadOutcomes :
          /\ hread' = [hread EXCEPT ![h] = read]
          /\ hpc' = [hpc EXCEPT ![h] = after_read(read)]
    /\ UNCHANGED <<ingestVars, program, srvVars, hport, hip, handoffs>>

\* honeypot.py:154-165  the callback is run to its end in a loop of this
\* thread (what it raises is logged)
RunCallback(h) ==
    /\ hpc[h] = "callback"
    /\ handoffs' = [handoffs EXCEPT
                      ![h] = Append(@, capture(hip[h], hport[h]))]
    /\ hpc' = [hpc EXCEPT ![h] = "close"]
    /\ UNCHANGED <<ingestVars, program, srvVars, hport, hip, hread>>

\* honeypot.py:169-173  finally: client_socket.close()
CloseClient(h) ==
    /\ hpc[h] = "close"
    /\ hpc' = [hpc EXCEPT ![h] = "closed"]
    /\ UNCHANGED <<ingestVars, program, srvVars, hport, hip, hread,
                   handoffs>>

\* app.py:110-116  start_honeypots: a HoneypotServer and a thread per port
StartHoneypots ==
    /\ program = "none"
    /\ program' = "app"
    /\ lpc' = [l \in Ports |-> IF l \in AppPorts THEN "start" ELSE lpc[l]]
    /\ UNCHANGED <<ingestVars, running, socket, spc, bindFailed, crashed,
                   hdlVars>>

\* app.py:37-46, 58-59  start(): socket(), bind, listen, running = True; an
\* error is printed and start() returns
AppStart(l) ==
    /\ program = "app"
    /\ lpc[l] = "start"
    /\ \E ok \in BOOLEAN :
          IF ok
          THEN /\ socket' = [socket EXCEPT ![l] = "listening"]
               /\ running' = [running EXCEPT ![l] = TRUE]
               /\ lpc' = [lpc EXCEPT ![l] = "loop"]
               /\ UNCHANGED bindFailed
          ELSE /\ socket' = [socket EXCEPT ![l] = "unbound"]
               /\ lpc' = [lpc EXCEPT ![l] = "ended"]
               /\ bindFailed' = [bindFailed EXCEPT ![l] = TRUE]
               /\ UNCHANGED running
    /\ UNCHANGED <<ingestVars, program, spc, crashed, hdlVars>>

\* app.py:48  while self.running
AppLoopCheck(l) ==
    /\ program = "app"
    /\ lpc[l] = "loop"
    /\ lpc' = [lpc EXCEPT ![l] = IF running[l] THEN "accept" ELSE "ended"]
    /\ UNCHANGED <<ingestVars, program, running, socket, spc, bindFailed,
                   crashed, hdlVars>>

\* app.py:50  accept() returns a connection; the server thread handles it
AppAccept(l, h, a) ==
    /\ program = "app"
    /\ lpc[l] = "accept"
    /\ socket[l] \in {"listening", "closed"}
    /\ hpc[h] = "idle"
    /\ hpc' = [hpc EXCEPT ![h] = "log_attack"]
    /\ hport' = [hport EXCEPT ![h] = l]
    /\ hip' = [hip EXCEPT ![h] = a]
    /\ lpc' = [lpc EXCEPT ![l] = "handle"]
    /\ UNCHANGED <<ingestVars, program, running, socket, spc, bindFailed,
                   crashed, hread, handoffs>>

\* app.py:52-53, 67-106  log_attack (location, save, emit; what it raises is
\* printed) and client_socket.close()
AppLogAttack(l, h) ==
    /\ program = "app"
    /\ lpc[l] = "handle"
    /\ hpc[h] = "log_attack"
    /\ hport[h] = l
    /\ handoffs' = [handoffs EXCEPT
                      ![h] = Append(@, capture(hip[h], hport[h]))]
    /\ hpc' = [hpc EXCEPT ![h] = "closed"]
    /\ lpc' = [lpc EXCEPT ![l] = "loop"]
    /\ UNCHANGED <<ingestVars, program, running, socket, spc, bindFailed,
                   crashed, hport, hip, hread>>

\* app.py:54-56  accept() raises: printed if running, the loop goes on
AppAcceptError(l) ==
    /\ program = "app"
    /\ lpc[l] = "accept"
    /\ lpc' = [lpc EXCEPT ![l] = "loop"]
    /\ crashed' = [crashed EXCEPT ![l] = FALSE]
    /\ UNCHANGED <<ingestVars, program, running, socket, spc, bindFailed,
                   hdlVars>>

\* app.py:61-65  stop(): running = False, the socket closed
AppStop(l) ==
    /\ program = "app"
    /\ spc[l] = "none"
    /\ lpc[l] \notin {"none", "start"}
    /\ running' = [running EXCEPT ![l] = FALSE]
    /\ socket' = [socket EXCEPT ![l] = IF socket[l] = "None" THEN "None"
                                        ELSE "closed"]
    /\ spc' = [spc EXCEPT ![l] = "returned"]
    /\ UNCHANGED <<ingestVars, program, lpc, bindFailed, crashed, hdlVars>>

NextListener ==
    \/ StartupEvent
    \/ StartHoneypots
    \/ \E l \in Ports :
          \/ Start(l)
          \/ RunServerBind(l)
          \/ LoopCheck(l)
          \/ AcceptError(l)
          \/ Cleanup(l)
          \/ StopBegin(l)
          \/ StopClose(l)
          \/ StopJoin(l)
          \/ AppStart(l)
          \/ AppLoopCheck(l)
          \/ AppAcceptError(l)
          \/ AppStop(l)
          \/ \E h \in Handlers :
                \/ AppLogAttack(l, h)
                \/ \E a \in PeerAddrs :
                      \/ AcceptConnection(l, h, a)
                      \/ AppAccept(l, h, a)
    \/ \E h \in Handlers :
          \/ HandleRead(h)
          \/ RunCallback(h)
          \/ CloseClient(h)

SpecListener == Init /\ [][NextListener]_vars

\* The scheduler runs every thread that can take a step: the server threads,
\* the callers of stop(), the connection threads.  Nothing obliges a client
\* to connect or accept() to raise.
ListenerFairness ==
    /\ \A l \in Ports :
          /\ WF_vars(Start(l))
          /\ WF_vars(RunServerBind(l))
          /\ WF_vars(LoopCheck(l))
          /\ WF_vars(Cleanup(l))
          /\ WF_vars(StopClose(l))
          /\ WF_vars(StopJoin(l))
          /\ WF_vars(AppStart(l))
          /\ WF_vars(AppLoopCheck(l))
          /\ \A h \in Handlers : WF_vars(AppLogAttack(l, h))
    /\ \A h \in Handlers :
          /\ WF_vars(HandleRead(h))
          /\ WF_vars(RunCallback(h))
          /\ WF_vars(CloseClient(h))

SpecListenerFair == SpecListener /\ ListenerFairness

\* ------------------------------------------------------ SpecEndToEnd
\* One connection from the loopback address on an empty store, from accept
\* to the sends of manager.send_attack, while websocket clients come and go.
\* The first connection thread is the first publisher: its send_attack
\* starts once handle_new_attack has called it (main.py:171).

NextEndToEnd ==
    \/ Accept(1) /\ ip'[1] = Loopback
    \/ HandleConnection(1)
    \/ GetLocation(1)
    \/ BuildAttack(1)
    \/ Commit(1)
    \/ SendAttack(1)
    \/ \E w \in WebSockets : WsConnect(w)
    \/ \E w \in WebSockets : ClientClose(w)
    \/ \E w \in WebSockets : EndpointDisconnect(w)
    \/ \E w \in WebSockets : EndpointRemove(w)
    \/ (pc[1] = "done" /\ bcastLog # <<>>) /\ SendAttackCopy(1)
    \/ SendJson(1)
    \/ SendFailedRemove(1)

SpecEndToEnd == Init /\ [][NextEndToEnd]_vars

\* ================================================================== claims

Returned == {"build", "commit", "send", "done"}   \* get_location is over
InLookup == {"rate_limit", "sleep", "fetch"}

\* The commit of connection c raised: its Attack never got an id.
CommitFailed(c) ==
    /\ pc[c] = "done"
    /\ c \in DOMAIN attack
    /\ attack[c].id = NoId

Broadcasts(c) == {j \in 1 .. Len(bcastLog) : bcastLog[j].cap = c}
Appends(c)    == {i \in 1 .. Len(appendLog) : appendLog[i].cap = c}

\* C1: every payload handed to send_attack belongs to a row that was
\* committed before, and carries the id that commit assigned; a connection
\* whose commit failed is never broadcast.
C1_BroadcastOnlyAfterCommit ==
    /\ \A j \in 1 .. Len(bcastLog) :
          \E i \in 1 .. Len(appendLog) :
             /\ appendLog[i].cap = bcastLog[j].cap
             /\ appendLog[i].id = bcastLog[j].data.id
             /\ appendLog[i] \in store
    /\ \A c \in Conns : CommitFailed(c) => Broadcasts(c) = {}

C1_Witness ==
    \E c, d \in Conns :
       /\ pc[c] = "done" /\ Broadcasts(c) # {}
       /\ CommitFailed(d)

\* C2: send_attack is called in the order of the commits, i.e. with
\* ascending assigned ids.
C2_BroadcastOrderIsAppendOrder ==
    \A i, j \in 1 .. Len(bcastLog) :
       i < j => bcastLog[i].data.id < bcastLog[j].data.id

C4_TimestampFollowsAcceptOrder ==
    \A r1, r2 \in store :
       acceptedAt[r1.cap] < acceptedAt[r2.cap]
          => r1.timestamp <= r2.timestamp

\* C5: each id assigned by a commit is greater than every id assigned
\* before, also after rows were deleted or purged.
C5_IdsNeverReused ==
    \A i, j \in 1 .. Len(appendLog) :
       i < j => appendLog[i].id < appendLog[j].id

C8_ExpiredEntryReplaced ==
    [][\A c \in Conns :
          (stale[c] /\ pc[c] = "fetch" /\ pc'[c] # "fetch") =>
             /\ nlookups'[c] = 1
             /\ c \in DOMAIN location'
             /\ ip[c] \in DOMAIN cache'
             /\ cache'[ip[c]] = [location  |-> location'[c],
                                 cached_at |-> datetime_now]]_vars

\* C9: after a lookup that failed in any way get_location has returned the
\* "Unknown" record without raising, and once the ingest is over (storage
\* available) the row is stored and was broadcast with country "Unknown".
C9_LookupFailureDegrades ==
    \A c \in Conns :
       outcome[c] \in FailOutcomes =>
          /\ pc[c] \in Returned
          /\ c \in DOMAIN location
          /\ location[c].country = "Unknown"
          /\ location[c] = get_fallback_location
          /\ (pc[c] = "done" /\ ~ CommitFailed(c)) =>
                /\ \E r \in store : r.cap = c /\ r.country = "Unknown"
                /\ \E j \in Broadcasts(c) :
                      /\ bcastLog[j].data.country = "Unknown"
                      /\ \E r \in store : r.cap = c /\ r.id = bcastLog[j].data.id

C9_Witness ==
    \E c, d \in Conns :
       /\ outcome[c] \in Raising /\ pc[c] = "done" /\ Broadcasts(c) # {}
       /\ outcome[d] \in FailOutcomes \ Raising /\ pc[d] = "done"
       /\ Broadcasts(d) # {}

\* C10: whenever a lookup ends in a failure of any kind, the "Unknown"
\* record is put in the cache under the address with the current time.
C10_FailureIsCached ==
    [][\A c \in Conns :
          (pc[c] = "fetch" /\ pc'[c] # "fetch" /\ outcome'[c] \in FailOutcomes)
             => /\ ip[c] \in DOMAIN cache'
                /\ cache'[ip[c]] = [location  |-> get_fallback_location,
                                    cached_at |-> datetime_now]]_vars

\* C11: the external lookups of concurrent get_location calls for different
\* public addresses are serialized by the rate limiter: any two of them
\* start at least RateLimitDelay apart.
C11_LookupsSpacedByDelay ==
    \A c, d \in Conns :
       ( /\ c # d
         /\ ip[c] # ip[d]
         /\ ~ is_private_ip(ip[c]) /\ ~ is_private_ip(ip[d])
         /\ nlookups[c] > 0 /\ nlookups[d] > 0 )
       => \/ lookupAt[c] - lookupAt[d] >= RateLimitDelay
          \/ lookupAt[d] - lookupAt[c] >= RateLimitDelay

\* The send_json calls of publisher b that went to websocket w.
SentTo(b, w) == {i \in 1 .. Len(sent[b]) : sent[b][i].to = w}

\* C12: when a send to one websocket fails, that websocket is removed from
\* active_connections, every other websocket of the copy is still sent to,
\* and send_attack does not raise.
C12_SendFailureIsolated ==
    \A b \in Publishers :
       /\ bpc[b] # "raised"
       /\ bpc[b] = "done" =>
             /\ \A i \in 1 .. Len(sent[b]) :
                   ~ sent[b][i].ok =>
                      ~ Contains(active_connections, sent[b][i].to)
             /\ \A k \in 1 .. Len(snapshot[b]) :
                   SentTo(b, snapshot[b][k]) # {}

\* C13: a broadcast calls send_json exactly once for each websocket that
\* was in active_connections when the copy was taken and for no other,
\* whatever connects or disconnects meanwhile.
C13_ExactlyOncePerSnapshotMember ==
    \A b \in Publishers : \A w \in WebSockets :
       /\ Cardinality(SentTo(b, w)) <= 1
       /\ SentTo(b, w) # {} => Contains(snapshot[b], w)
       /\ (bpc[b] \in {"done", "raised"} /\ Contains(snapshot[b], w))
             => Cardinality(SentTo(b, w)) = 1

\* C14: disconnect never raises and removes the websocket at most once:
\* for a websocket that is not in the list it leaves the list as it is,
\* also when the failed send and the endpoint's handler both call it.
C14_DisconnectIdempotent ==
    [][ /\ \A w \in WebSockets : epc'[w] # "raised"
        /\ \A b \in Publishers : bpc'[b] # "raised"
        /\ \A w \in WebSockets :
              (epc[w] \in {"receive", "remove"} /\ epc'[w] # epc[w]
                 /\ ~ Contains(active_connections, w))
              => active_connections' = active_connections ]_vars

\* --------------------------------------------------- claims on the routes

IsQuery   == resp.op = "get_attacks" /\ resp.status = 200
BodyIds   == {resp.body[i].id : i \in 1 .. Len(resp.body)}
Unfiltered(req) ==
    /\ req.country = <<>> /\ req.protocol = <<>>
    /\ req.port = <<>> /\ req.hours = <<>>

\* The body is the page (offset, limit) of some order of the rows 'matching'.
IsPageOf(matching) ==
    LET rest == Cardinality(matching) - get_attacks_offset(resp.req) IN
    /\ \A i \in 1 .. Len(resp.body) :
          \E r \in matching : resp.body[i] = to_dict(r)
    /\ \A i, j \in 1 .. Len(resp.body) :
          i # j => resp.body[i].id # resp.body[j].id
    /\ Len(resp.body) = Min(get_attacks_limit(resp.req),
                            IF rest < 0 THEN 0 ELSE rest)

\* 'sub' occurs in 'str', letters compared without case.
ContainsIgnoringCase(str, sub) ==
    \E k \in 0 .. Len(str) - Len(sub) :
       \A i \in 1 .. Len(sub) : lower(str[k + i]) = lower(sub[i])

\* C15: whatever the table holds, a query answered with limit L returns at
\* most L events, and a limit above 1000 is never honoured: the request is
\* rejected and returns no event.
C15_AtMostLimit ==
    resp.op = "get_attacks" =>
       /\ resp.status = 200 =>
             /\ Len(resp.body) <= get_attacks_limit(resp.req)
             /\ get_attacks_limit(resp.req) <= 1000
       /\ get_attacks_limit(resp.req) > 1000 =>
             /\ resp.status = 422
             /\ resp.body = <<>>

C15_Witness ==
    /\ IsQuery
    /\ Unfiltered(resp.req) /\ resp.req.offset = <<>>
    /\ resp.req.limit = <<1>>
    /\ Cardinality(resp.before) = MaxRows
    /\ Len(resp.body) = 1

\* C16: the list a query returns is ordered by timestamp descending, and
\* events of equal timestamp come in id-descending order.
C16_OrderedByTimestampThenId ==
    IsQuery =>
       \A i, j \in 1 .. Len(resp.body) :
          i < j =>
             \/ resp.body[i].timestamp > resp.body[j].timestamp
             \/ /\ resp.body[i].timestamp = resp.body[j].timestamp
                /\ resp.body[i].id > resp.body[j].id

C19_CleanupRemovesOlderThanCutoff ==
    (resp.op = "cleanup_old_attacks" /\ resp.status = 200) =>
       LET cutoff_time == resp.at - cleanup_days(resp.req) * OneDay
           kept == {r \in resp.before : r.timestamp >= cutoff_time}
       IN  /\ resp.after = kept
           /\ store = kept
           /\ resp.before \ resp.after =
                 {r \in resp.before : r.timestamp < cutoff_time}
           /\ resp.deleted_count = Cardinality(resp.before \ resp.after)
           /\ \A q \in order_by_desc_timestamp(
                            get_attacks_filter(store, NoRequest, now)) :
                 Range(to_dicts(offset_limit(q,
                          get_attacks_offset(NoRequest),
                          get_attacks_limit(NoRequest))))
                    = {to_dict(r) : r \in kept}

C19_Witness ==
    /\ resp.op = "cleanup_old_attacks" /\ resp.status = 200
    /\ resp.deleted_count >= 1
    /\ resp.after # {}
    /\ \E r \in resp.after :
          r.timestamp = resp.at - cleanup_days(resp.req) * OneDay

\* C20: cleanup with days=0 succeeds, deletes every stored attack, answers
\* deleted_count = the number stored before, and an unfiltered query after
\* it returns the empty list.
C20_CleanupZeroDaysDeletesAll ==
    (resp.op = "cleanup_old_attacks" /\ resp.req.days = <<0>>) =>
       /\ resp.status = 200
       /\ resp.after = {}
       /\ store = {}
       /\ resp.deleted_count = Cardinality(resp.before)

\* ------------------------------------------- claims on the summary
IsSummary == resp.op = "get_attack_summary"

CountOfPort(rows, p) == Cardinality({r \in rows : r.port = p})
CountOfCountry(rows, k) == Cardinality({r \in rows : r.country = k})

NonIncreasing(list) ==
    \A i, j \in 1 .. Len(list) : i < j => list[i].count >= list[j].count

TopPortsOk(list, rows) ==
    /\ Len(list) <= TopLimit
    /\ NonIncreasing(list)
    /\ \A i, j \in 1 .. Len(list) : list[i].port = list[j].port => i = j
    /\ \A i \in 1 .. Len(list) :
          /\ list[i].count = CountOfPort(rows, list[i].port)
          /\ list[i].count > 0
    /\ \A r \in rows :
          \/ \E i \in 1 .. Len(list) : list[i].port = r.port
          \/ \A i \in 1 .. Len(list) :
                CountOfPort(rows, r.port) <= list[i].count

TopCountriesOk(list, rows) ==
    /\ Len(list) <= TopLimit
    /\ NonIncreasing(list)
    /\ \A i, j \in 1 .. Len(list) : list[i].country = list[j].country => i = j
    /\ \A i \in 1 .. Len(list) :
          /\ list[i].count = CountOfCountry(rows, list[i].country)
          /\ list[i].count > 0
    /\ \A r \in rows :
          \/ \E i \in 1 .. Len(list) : list[i].country = r.country
          \/ \A i \in 1 .. Len(list) :
                CountOfCountry(rows, r.country) <= list[i].count

\* C21: for every table, the summary reports total_attacks = the number of
\* rows, unique_countries and unique_ips = the numbers of distinct countries
\* and distinct addresses, and top_ports / top_countries as at most TopLimit
\* groups in non-increasing count order, each count being the number of rows
\* of its group, no group left out having a larger count than a listed one.
C21_SummaryCounts ==
    IsSummary =>
       /\ resp.summary.total_attacks = Cardinality(resp.before)
       /\ resp.summary.unique_countries
            = Cardinality({r.country : r \in resp.before})
       /\ resp.summary.unique_ips
            = Cardinality({r.ip_address : r \in resp.before})
       /\ TopPortsOk(resp.summary.top_ports, resp.before)
       /\ TopCountriesOk(resp.summary.top_countries, resp.before)

\* A summary of a table with more groups than the lists may hold, two listed
\* groups of equal count, and fewer addresses than countries.
C21_Witness ==
    /\ IsSummary
    /\ Cardinality({r.port : r \in resp.before}) > TopLimit
    /\ Cardinality({r.country : r \in resp.before}) > TopLimit
    /\ Len(resp.summary.top_ports) = TopLimit
    /\ Len(resp.summary.top_countries) = TopLimit
    /\ \E i \in 1 .. TopLimit - 1 :
          resp.summary.top_ports[i].count
            = resp.summary.top_ports[i + 1].count
    /\ resp.summary.unique_ips < resp.summary.unique_countries

\* ------------------------------------------- claims on the risk level
RiskLevels == {"LOW", "MEDIUM", "HIGH", "CRITICAL"}

RiskRank(level) ==
    CASE level = "LOW" -> 0
      [] level = "MEDIUM" -> 1
      [] level = "HIGH" -> 2
      [] level = "CRITICAL" -> 3

\* The levels of the lists that hold the port.
ListedLevels(port) ==
    {l \in RiskLevels :
       \/ l = "CRITICAL" /\ port \in critical_ports
       \/ l = "HIGH" /\ port \in high_risk_ports
       \/ l = "MEDIUM" /\ port \in medium_risk_ports}

\* C22: the risk level is a function of the port alone into {LOW, MEDIUM,
\* HIGH, CRITICAL}: 22 gives CRITICAL, 80 HIGH, 143 MEDIUM, a port of no list
\* (9999) LOW, and a port of more than one list (993, 995) the highest of
\* its levels.
C22_RiskLevelOfPort ==
    resp.op = "get_risk_level" =>
       LET port == resp.req.port[1]
           level == resp.risk_level
       IN  /\ level \in RiskLevels
           /\ port = 22 => level = "CRITICAL"
           /\ port = 80 => level = "HIGH"
           /\ port = 143 => level = "MEDIUM"
           /\ port = 9999 => level = "LOW"
           /\ ListedLevels(port) = {} => level = "LOW"
           /\ ListedLevels(port) # {} =>
                 /\ level \in ListedLevels(port)
                 /\ \A l \in ListedLevels(port) :
                       RiskRank(l) <= RiskRank(level)

\* The level of a port that is in two lists was asked for.
C22_Witness ==
    /\ resp.op = "get_risk_level"
    /\ resp.req.port = <<993>>
    /\ Cardinality(ListedLevels(993)) = 2
    /\ resp.risk_level = "HIGH"

\* ------------------------------------------- claims on the listeners
InFlight(h) == hpc[h] \notin {"idle", "closed"}

\* C23: a listener whose bind failed ends with running == False and no
\* socket (the listeners of the other ports are not touched by it).
C23_BindFailureContained ==
    \A l \in Ports :
       (bindFailed[l] /\ lpc[l] = "ended") =>
          /\ running[l] = FALSE
          /\ socket[l] = "None"

\* C24: once stop() of honeypot.py has returned on a running listener, the
\* port accepts no further connection.
C24_NoAcceptAfterStop ==
    [][program = "main" =>
          \A h \in Handlers :
             (hpc[h] = "idle" /\ hpc'[h] # "idle") =>
                spc[hport'[h]] # "returned"]_vars

\* C25: when stop() of honeypot.py has returned, no capture of the port is
\* in flight with its client connection open.
C25_NoCaptureInFlightAfterStop ==
    program = "main" =>
       \A l \in Ports :
          spc[l] = "returned" =>
             \A h \in Handlers : hport[h] = l => ~ InFlight(h)

\* C26: a listener whose accept loop ended through an error, stop() not
\* requested, comes to accept connections again.
C26_RestartedAfterError ==
    \A l \in Ports :
       (crashed[l] /\ lpc[l] = "ended" /\ spc[l] = "none")
          ~> (lpc[l] = "accept" \/ spc[l] # "none")

\* C27: while stop has not been requested and the listening socket is open,
\* accept() raising does not end the accept loop: the server thread goes on
\* with the loop.
C27_AcceptErrorKeepsLoop ==
    [][\A l \in Ports :
          (/\ lpc[l] = "accept"
           /\ running[l]
           /\ socket[l] = "listening"
           /\ lpc'[l] # "accept") =>
             lpc'[l] \in {"loop", "handle"}]_vars

\* C28: while a connection is being handled, the server thread of its port
\* is free to accept the next one: it is never the thread that handles it.
C28_HandlingNeverBlocksAccept ==
    \A h \in Handlers : InFlight(h) => lpc[hport[h]] # "handle"

HandoffOnce(h) ==
    /\ Len(handoffs[h]) <= 1
    /\ hpc[h] \in {"recv", "callback", "log_attack"} => handoffs[h] = <<>>
    /\ hpc[h] \in {"close", "closed"} =>
          handoffs[h] = <<capture(hip[h], hport[h])>>

\* C29: every accepted connection leads to exactly one handoff {address,
\* port of the listener, "TCP"} and then to its client socket being closed,
\* whatever the read gave (data, a timeout, an error).
C29_OneHandoffThenClose ==
    /\ [](\A h \in Handlers : HandoffOnce(h))
    /\ \A h \in Handlers : (hpc[h] # "idle") ~> (hpc[h] = "closed")

\* Two connections of one listener are closed, one after a read timeout and
\* one after a read error, each handed on once.
C29_Witness ==
    \E h, k \in Handlers :
       /\ hpc[h] = "closed" /\ hread[h] = "timeout"
       /\ hpc[k] = "closed" /\ hread[k] = "error"
       /\ Len(handoffs[h]) = 1 /\ Len(handoffs[k]) = 1
       /\ hport[h] = hport[k]

\* ------------------------------------------- claims end to end
\* The connection from the loopback address was stored and its send_attack
\* is over.
LoopbackDone ==
    /\ ip[1] = Loopback
    /\ pc[1] = "done"
    /\ appendLog # <<>>
    /\ bpc[1] \in {"done", "raised"}

OneLoopbackEvent ==
    /\ Cardinality(store) = 1
    /\ \A r \in store :
          /\ r.id = 1
          /\ r.ip_address = Loopback
          /\ r.country = "Private Network"
          /\ r.port = HoneypotPort
          /\ r.protocol = "TCP"
    /\ Len(bcastLog) = 1
    /\ \A r \in store : bcastLog[1].data = attack_data(r)

\* C30: with an empty store, one connection from a loopback address gives
\* exactly one stored event with country "Private Network", the port of the
\* listener, protocol "TCP" and id 1, and the event is sent to every
\* subscriber connected when send_attack copied the list.
C30_EndToEndLoopback ==
    LoopbackDone =>
       /\ OneLoopbackEvent
       /\ \A w \in Range(snapshot[1]) :
             Cardinality({i \in 1 .. Len(sent[1]) : sent[1][i].to = w}) = 1

\* ------------------------------------------- claims on storage failures
\* The commit of connection c went through.
Committed(c) ==
    /\ c \in DOMAIN attack
    /\ attack[c].id # NoId

\* C31: a commit that raises is fatal for its capture only: the capture
\* ends (handle_new_attack returns, nothing is stored or sent for it), the
\* next connection can be accepted, and every capture whose commit went
\* through, before or after the failure, has its row in the store and was
\* handed to send_attack once, with that row.
C31_StorageFailureIsolated ==
    \A c \in Conns :
       /\ CommitFailed(c) =>
             /\ Appends(c) = {}
             /\ Broadcasts(c) = {}
             /\ \A r \in store : r.cap # c
             /\ (c + 1 \in Conns /\ pc[c + 1] = "idle") =>
                   ENABLED Accept(c + 1)
       /\ (pc[c] = "done" /\ Committed(c)) =>
             /\ attack[c] \in store
             /\ Cardinality(Appends(c)) = 1
             /\ Cardinality(Broadcasts(c)) = 1
             /\ \A j \in Broadcasts(c) :
                   bcastLog[j].data = attack_data(attack[c])

\* The commit of the first connection failed; the second, accepted after
\* it, was stored and sent.
C31_Witness ==
    /\ NumConns >= 2
    /\ CommitFailed(1)
    /\ pc[2] = "done"
    /\ Committed(2)
    /\ Broadcasts(2) # {}
    /\ Cardinality(store) = 1

\* ------------------------------------------- claims on the stored rows
\* C32: every row of the store has all its location facts set, to what
\* get_location returned for its connection: country, city, region,
\* timezone, latitude, longitude and isp; none is left unset.
C32_StoredRowsFullyPopulated ==
    \A r \in store :
       /\ r.cap \in DOMAIN location
       /\ r.country = location[r.cap].country
       /\ r.city = location[r.cap].city
       /\ r.latitude = location[r.cap].latitude
       /\ r.longitude = location[r.cap].longitude
       /\ r.region # Null /\ r.region = location[r.cap].region
       /\ r.timezone # Null /\ r.timezone = location[r.cap].timezone
       /\ r.isp # Null /\ r.isp = location[r.cap].isp

\* ------------------------------------------ the classifier on any string
\* The classifier is called with a string; split('.') gives its parts and
\* int() reads a part (NaN: int() raises ValueError).  The strings tried:
\* one to five parts, every position unreadable in turn, first parts in and
\* next to each private range.
FirstParts  == {NaN, 8, 10, 127, 172, 192}
SecondParts == {NaN, 0, 15, 16, 31, 32, 168}
ThirdParts  == {NaN, 0}
FourthParts == {NaN, 1, 256}
IpStrings ==
    {<<NaN>>, <<10, 0>>, <<10, 0, 0>>, <<10, 0, 0, 1, 1>>, <<8, 8, 8, 8, 8>>}
    \cup {<<a, b, c, d>> : a \in FirstParts, b \in SecondParts,
                           c \in ThirdParts, d \in FourthParts}

\* geoip.py:121-150, geolocation.py:93-114 called on its own, as
\* tests/test_geolocation.py:15-27 does.
IsPrivateIp(s) ==
    /\ resp = NoResponse
    /\ resp' = [NoResponse EXCEPT
                  !.op = "is_private_ip",
                  !.req = [NoRequest EXCEPT !.ip_address = <<s>>],
                  !.at = datetime_utcnow,
                  !.is_private = <<is_private_ip(s)>>]
    /\ UNCHANGED <<now, pipeVars, dbVars, bcastLog>>

NextClassify ==
    \/ \E s \in IpStrings : IsPrivateIp(s)
    \/ SendResponse

SpecClassify == Init /\ [][NextClassify]_vars

\* A four-part string whose parts are all decimal numbers.
IsDottedDecimal(s) == Len(s) = 4 /\ \A i \in 1 .. 4 : s[i] # NaN

\* 10.0.0.0/8, 172.16.0.0/12, 192.168.0.0/16, 127.0.0.0/8
InPrivateRanges(s) ==
    \/ s[1] = 10
    \/ s[1] = 172 /\ 16 <= s[2] /\ s[2] <= 31
    \/ s[1] = 192 /\ s[2] = 168
    \/ s[1] = 127

\* C33: the classifier answers true for every dotted-quad address of the
\* four private ranges and for every string that is not a four-part
\* dotted-decimal address, and false for every other dotted-quad address.
C33_ClassifierExact ==
    resp.op = "is_private_ip" =>
        LET s == resp.req.ip_address[1] IN
        resp.is_private[1] =
            IF IsDottedDecimal(s) THEN InPrivateRanges(s) ELSE TRUE

\* ------------------------------------- the summary on a server off UTC
\* The pipeline stamps with datetime.now() (main.py:144), the summary cuts
\* with datetime.utcnow() (attacks.py:123, 127).  The server's local time is
\* UTC-12, UTC or UTC+12, in ticks of twelve hours.
WindowOffsets == {0 - 1, 0, 1}

InitWindow ==
    /\ now = RateLimitDelay
    /\ utcoffset \in WindowOffsets
    /\ pc = [c \in Conns |-> "idle"]
    /\ ip = [c \in Conns |-> PrivateAddr]
    /\ acceptedAt = [c \in Conns |-> 0]
    /\ location = EmptyDict
    /\ attack = EmptyDict
    /\ wake = [c \in Conns |-> 0]
    /\ outcome = [c \in Conns |-> "none"]
    /\ nlookups = [c \in Conns |-> 0]
    /\ fresh = [c \in Conns |-> FALSE]
    /\ stale = [c \in Conns |-> FALSE]
    /\ cache = EmptyDict
    /\ last_request_time = 0
    /\ resolved = EmptyDict
    /\ store = {}
    /\ appendLog = <<>>
    /\ bcastLog = <<>>
    /\ lookupAt = [c \in Conns |-> 0]
    /\ active_connections = <<>>
    /\ transport = [w \in WebSockets |-> "new"]
    /\ epc = [w \in WebSockets |-> "idle"]
    /\ bpc = [b \in Publishers |-> "idle"]
    /\ snapshot = [b \in Publishers |-> <<>>]
    /\ idx = [b \in Publishers |-> 0]
    /\ sent = [b \in Publishers |-> <<>>]
    /\ resp = NoResponse
    /\ ListenInit

NextWindow ==
    \/ StoreTick
    \/ IngestPrivate
    \/ GetAttackSummary
    \/ SendResponse

SpecWindow == InitWindow /\ [][NextWindow]_vars

\* When a stored event of the pipeline was captured, on the clock of the
\* summary: its stamp is the local time of its capture (main.py:144).
CapturedAt(r) == r.timestamp - utcoffset

CapturedWithin(rows, at, window) ==
    Cardinality({r \in rows : CapturedAt(r) >= at - window})

\* C34: recent_attacks_24h and last_hour_attacks are the numbers of stored
\* events captured within the 24 hours and the hour before the summary is
\* computed, whatever the offset between the clock that stamps at ingest
\* and the clock of the cutoff.
C34_WindowCountsExact ==
    resp.op = "get_attack_summary" =>
        /\ resp.summary.recent_attacks_24h =
              CapturedWithin(resp.before, resp.at, timedelta_hours(24))
        /\ resp.summary.last_hour_attacks =
              CapturedWithin(resp.before, resp.at, timedelta_hours(1))

\* ------------------------------------------- a client reads page by page
\* A client reads the list with a fixed filter and page size L: offset 0,
\* L, 2L, ... until a page comes back short.  Each page is its own call of
\* get_attacks (attacks.py:21-78), so its own ORDER BY timestamp DESC; the
\* pages read so far are kept in "pages".  No other route runs in between.
PageLimits == {<<1>>, <<2>>}

PagesEnded ==
    /\ resp.pages # <<>>
    /\ Len(resp.pages[Len(resp.pages)]) < get_attacks_limit(resp.req)

GetAttacksPage(req) ==
    /\ get_attacks_valid(req)
    /\ \/ resp = NoResponse /\ get_attacks_offset(req) = 0
       \/ /\ resp.op = "get_attacks_page"
          /\ ~ PagesEnded
          /\ req = [resp.req EXCEPT
                      !.offset = <<get_attacks_offset(resp.req)
                                   + get_attacks_limit(resp.req)>>]
    /\ \E q \in order_by_desc_timestamp(
                   get_attacks_filter(store, req, datetime_utcnow)) :
          resp' = [NoResponse EXCEPT
                     !.op = "get_attacks_page", !.req = req,
                     !.at = datetime_utcnow,
                     !.before = store, !.after = store,
                     !.status = 200,
                     !.body = to_dicts(offset_limit(q,
                                 get_attacks_offset(req),
                                 get_attacks_limit(req))),
                     !.pages = Append(resp.pages,
                                 to_dicts(offset_limit(q,
                                    get_attacks_offset(req),
                                    get_attacks_limit(req))))]
    /\ UNCHANGED <<now, pipeVars, dbVars, bcastLog>>

NextPages ==
    \/ \E l \in PageLimits, p \in ProtocolVals, k \in 0 .. MaxRows :
          GetAttacksPage([NoRequest EXCEPT !.limit = l, !.protocol = p,
                                           !.offset = <<k>>])
    \/ SendResponse

SpecPages == InitApi /\ [][NextPages]_vars

RECURSIVE Concat(_)
Concat(ps) == IF ps = <<>> THEN <<>> ELSE Head(ps) \o Concat(Tail(ps))

PagesDisjoint(ps) ==
    \A i, j \in 1 .. Len(ps) : i < j =>
       {d.id : d \in Range(ps[i])} \cap {d.id : d \in Range(ps[j])} = {}

\* C35: with no write in between, the pages of one filter and page size are
\* pairwise disjoint and, once the last page is read, their concatenation
\* is the full ordered result, also when stored events share a timestamp.
C35_PagesConsistent ==
    resp.op = "get_attacks_page" =>
        /\ PagesDisjoint(resp.pages)
        /\ PagesEnded =>
              Concat(resp.pages) \in
                 {to_dicts(q) : q \in order_by_desc_timestamp(
                     get_attacks_filter(resp.before,
                        [resp.req EXCEPT !.offset = <<0>>], resp.at))}

\* ------------------------------------------------- the cache maintenance
\* geoip.py:231-239  the keys whose entry is not valid are deleted
clear_expired_cache_all(c, t) == EmptyDict

clear_expired_cache(c, t) ==
    [k \in {x \in DOMAIN c : is_cache_valid(c[x], t)} |-> c[k]]

\* geoip.py:233-236  expired_keys
expired_keys(c, t) == {k \in DOMAIN c : ~ is_cache_valid(c[k], t)}

\* geoip.py:226-228  self.cache.clear()
clear_cache(c) == EmptyDict

\* geoip.py:209-224
get_cache_stats(c, t) ==
    LET total_entries == Cardinality(DOMAIN c)
        valid_entries == Cardinality({k \in DOMAIN c : is_cache_valid(c[k], t)})
    IN  [total_entries |-> total_entries,
         valid_entries |-> valid_entries,
         expired_entries |-> total_entries - valid_entries,
         cache_duration_hours |-> (CacheDuration * 24) \div OneDay]

\* The three methods are called on the shared service between the steps of
\* the connections' lookups; each runs without awaiting anything.
cacheFrame == <<now, utcoffset, pc, connVars, location, attack, wake,
                ghostGeo, last_request_time, resolved, dbVars, bcastLog,
                dispVars, listenVars>>

ClearExpiredCache ==
    /\ resp = NoResponse
    /\ cache' = clear_expired_cache(cache, datetime_now)
    /\ resp' = [NoResponse EXCEPT
                  !.op = "clear_expired_cache",
                  !.at = datetime_now,
                  !.deleted_count =
                      Cardinality(expired_keys(cache, datetime_now))]
    /\ UNCHANGED cacheFrame

ClearCache ==
    /\ resp = NoResponse
    /\ cache' = clear_cache(cache)
    /\ resp' = [NoResponse EXCEPT !.op = "clear_cache", !.at = datetime_now]
    /\ UNCHANGED cacheFrame

GetCacheStats ==
    /\ resp = NoResponse
    /\ resp' = [NoResponse EXCEPT
                  !.op = "get_cache_stats",
                  !.at = datetime_now,
                  !.stats = get_cache_stats(cache, datetime_now)]
    /\ UNCHANGED <<cache, cacheFrame>>

\* The method returned.
CacheReturn ==
    /\ resp # NoResponse
    /\ resp' = NoResponse
    /\ UNCHANGED <<cache, cacheFrame>>

\* The connections are handled one after the other.
NextCache ==
    \/ Tick
    \/ \E c \in Conns :
          /\ IF c = 1 THEN TRUE ELSE pc[c - 1] = "done"
          /\ Accept(c)
    \/ \E c \in Conns : HandleConnection(c)
    \/ \E c \in Conns : GetLocation(c)
    \/ \E c \in Conns : RateLimit(c)
    \/ \E c \in Conns : SendRequest(c)
    \/ \E c \in Conns : FetchReturn(c)
    \/ \E c \in Conns : BuildAttack(c)
    \/ \E c \in Conns : Commit(c)
    \/ \E c \in Conns : SendAttack(c)
    \/ ClearExpiredCache
    \/ ClearCache
    \/ GetCacheStats
    \/ CacheReturn

SpecCache == Init /\ [][NextCache]_vars

ValidKeys(c, t) == {k \in DOMAIN c : t - c[k].cached_at < CacheDuration}

NoLookupIssued ==
    /\ nlookups' = nlookups
    /\ last_request_time' = last_request_time
    /\ lookupAt' = lookupAt

Threads == 1 .. NumThreads
Callers == 1 .. NumCallers

otherVars == <<now, utcoffset, pc, connVars, location, attack, wake,
               ghostGeo, geoVars, dbVars, bcastLog, dispVars, apiVars,
               program, srvVars, hdlVars>>

Unborn == {t \in Threads : thr[t] = "unborn"}

\* honeypot.py:45-47  start(): if self.running: return
ServerStartCheck(k) ==
    /\ cpc[k] = "idle"
    /\ Unborn # {}
    /\ cpc' = [cpc EXCEPT ![k] = IF self_running THEN "idle" ELSE "start"]
    /\ UNCHANGED <<otherVars, self_running, self_socket, server_thread,
                   sockobj, thr, blocked_on, running_set_by>>

\* honeypot.py:49-52  self.running = True, the thread is created and started
ServerStartThread(k) ==
    /\ cpc[k] = "start"
    /\ Unborn # {}
    /\ LET t == CHOOSE u \in Unborn : \A v \in Unborn : u <= v IN
       /\ self_running' = TRUE
       /\ running_set_by' = t
       /\ server_thread' = t
       /\ thr' = [thr EXCEPT ![t] = "bind"]
    /\ cpc' = [cpc EXCEPT ![k] = "idle"]
    /\ UNCHANGED <<otherVars, self_socket, sockobj, blocked_on>>

\* honeypot.py:60-64  stop(): if not self.running: return; running = False
ServerStop(k) ==
    /\ cpc[k] = "idle"
    /\ cpc' = [cpc EXCEPT ![k] = IF self_running THEN "close" ELSE "idle"]
    /\ self_running' = FALSE
    /\ UNCHANGED <<otherVars, self_socket, server_thread, sockobj, thr,
                   blocked_on, running_set_by>>

\* honeypot.py:66-70  if self.socket: self.socket.close()
ServerStopClose(k) ==
    /\ cpc[k] = "close"
    /\ sockobj' = IF self_socket = 0 THEN sockobj
                  ELSE [sockobj EXCEPT ![self_socket] = "closed"]
    /\ cpc' = [cpc EXCEPT ![k] = "join"]
    /\ UNCHANGED <<otherVars, self_running, self_socket, server_thread, thr,
                   blocked_on, running_set_by>>

\* honeypot.py:72-75  join(timeout=5) returns: the thread has ended, or the
\* five seconds are over with the thread still blocked in accept()
ServerStopJoin(k) ==
    /\ cpc[k] = "join"
    /\ IF server_thread = 0 THEN TRUE
       ELSE thr[server_thread] \in {"ended", "accept"}
    /\ cpc' = [cpc EXCEPT ![k] = "idle"]
    /\ UNCHANGED <<otherVars, self_running, self_socket, server_thread,
                   sockobj, thr, blocked_on, running_set_by>>

\* honeypot.py:84-93  self.socket = socket.socket(...), bind, listen; an
\* error goes to the outer except and to _cleanup
ThreadBind(t) ==
    /\ thr[t] = "bind"
    /\ self_socket' = t
    /\ \E ok \in BOOLEAN :
          IF ok
          THEN /\ sockobj' = [sockobj EXCEPT ![t] = "listening"]
               /\ thr' = [thr EXCEPT ![t] = "loop"]
          ELSE /\ sockobj' = [sockobj EXCEPT ![t] = "unbound"]
               /\ thr' = [thr EXCEPT ![t] = "cleanup"]
    /\ UNCHANGED <<otherVars, self_running, server_thread, blocked_on, cpc,
                   running_set_by>>

\* honeypot.py:95  while self.running
ThreadLoopCheck(t) ==
    /\ thr[t] = "loop"
    /\ thr' = [thr EXCEPT ![t] = IF self_running THEN "call" ELSE "cleanup"]
    /\ UNCHANGED <<otherVars, self_running, self_socket, server_thread,
                   sockobj, blocked_on, cpc, running_set_by>>

\* honeypot.py:98  self.socket.accept() is called: on None or on a socket
\* that is closed or not listening it raises (108-114: break), else it blocks
ThreadAcceptCall(t) ==
    /\ thr[t] = "call"
    /\ IF self_socket # 0 /\ sockobj[self_socket] = "listening"
       THEN /\ blocked_on' = [blocked_on EXCEPT ![t] = self_socket]
            /\ thr' = [thr EXCEPT ![t] = "accept"]
       ELSE /\ thr' = [thr EXCEPT ![t] = "cleanup"]
            /\ UNCHANGED blocked_on
    /\ UNCHANGED <<otherVars, self_running, self_socket, server_thread,
                   sockobj, cpc, running_set_by>>

\* honeypot.py:98-106  the blocked accept() returns a connection, its thread
\* is started
ThreadAcceptReturn(t) ==
    /\ thr[t] = "accept"
    /\ sockobj[blocked_on[t]] \in {"listening", "closed"}
    /\ thr' = [thr EXCEPT ![t] = "loop"]
    /\ blocked_on' = [blocked_on EXCEPT ![t] = 0]
    /\ UNCHANGED <<otherVars, self_running, self_socket, server_thread,
                   sockobj, cpc, running_set_by>>

\* honeypot.py:108-114  the blocked accept() raises: break
ThreadAcceptError(t) ==
    /\ thr[t] = "accept"
    /\ thr' = [thr EXCEPT ![t] = "cleanup"]
    /\ blocked_on' = [blocked_on EXCEPT ![t] = 0]
    /\ UNCHANGED <<otherVars, self_running, self_socket, server_thread,
                   sockobj, cpc, running_set_by>>

\* honeypot.py:118-119, 175-185  finally: _cleanup(): self.socket is closed
\* and set to None, self.running = False
ThreadCleanup(t) ==
    /\ thr[t] = "cleanup"
    /\ sockobj' = IF self_socket = 0 THEN sockobj
                  ELSE [sockobj EXCEPT ![self_socket] = "closed"]
    /\ self_socket' = 0
    /\ self_running' = FALSE
    /\ thr' = [thr EXCEPT ![t] = "ended"]
    /\ UNCHANGED <<otherVars, server_thread, blocked_on, cpc,
                   running_set_by>>

NextLifecycle ==
    \/ \E k \in Callers : ServerStartCheck(k)
    \/ \E k \in Callers : ServerStartThread(k)
    \/ \E k \in Callers : ServerStop(k)
    \/ \E k \in Callers : ServerStopClose(k)
    \/ \E k \in Callers : ServerStopJoin(k)
    \/ \E t \in Threads : ThreadBind(t)
    \/ \E t \in Threads : ThreadLoopCheck(t)
    \/ \E t \in Threads : ThreadAcceptCall(t)
    \/ \E t \in Threads : ThreadAcceptReturn(t)
    \/ \E t \in Threads : ThreadAcceptError(t)
    \/ \E t \in Threads : ThreadCleanup(t)

SpecLifecycle == Init /\ [][NextLifecycle]_vars

AliveThreads == {t \in Threads : thr[t] \notin {"unborn", "ended"}}

\* the _cleanup of server thread t runs to its end in this step
CleanupStep(t) == thr[t] = "cleanup" /\ thr'[t] = "ended"

\* C37: under every interleaving of start() and stop() calls on one
\* HoneypotServer, at most one accept-loop thread is alive at a time, and
\* the cleanup of an accept loop neither closes or clears the socket of a
\* later start nor resets the running flag a later start has set.
C37_OneLoopNoClobber ==
    [][/\ Cardinality(AliveThreads') <= 1
       /\ \A t \in Threads : CleanupStep(t) =>
             /\ ~ (self_socket > t)
             /\ ~ (self_running /\ running_set_by > t)]_vars

\* C38: while several get_location calls for the same uncached public
\* address are running at the same time, at most one external lookup has
\* been issued for that address between them (the others wait for, and
\* share, its record).
C38_OneLookupPerAddress ==
    \A c, d \in Conns :
       ( /\ c # d
         /\ ip[c] = ip[d]
         /\ ~ is_private_ip(ip[c])
         /\ pc[c] \in InLookup /\ pc[d] \in InLookup )
       => nlookups[c] + nlookups[d] <= 1

Occurrences(list, x) == Cardinality({i \in 1 .. Len(list) : list[i] = x})

\* A disconnect(w) call returns in this step: the one of the endpoint
\* (main.py:213) or the one of a publisher's error handler (main.py:85).
DisconnectReturns(w) ==
    \/ epc[w] \in {"receive", "remove"} /\ epc'[w] = "ended"
    \/ \E b \in Publishers :
          /\ bpc[b] = "remove"
          /\ bpc'[b] \in {"iter", "done"}
          /\ snapshot[b][idx[b]] = w

\* send_attack of publisher b starts in this step (main.py:77-79).
BroadcastStarts(b) == bpc[b] = "idle" /\ bpc'[b] # "idle"

\* C39: when a disconnect of a subscriber returns the subscriber is out of
\* active_connections, it never comes back, a broadcast that starts while
\* it is out does not take it into its copy and sends only to its copy;
\* and at every moment each subscriber is in active_connections at most
\* once.
C39_DisconnectedNotServed ==
    [][\A w \in WebSockets :
          /\ Occurrences(active_connections', w) <= 1
          /\ DisconnectReturns(w) => ~ Contains(active_connections', w)
          /\ (epc[w] # "idle" /\ ~ Contains(active_connections, w))
                => ~ Contains(active_connections', w)
          /\ \A b \in Publishers :
                /\ (BroadcastStarts(b) /\ ~ Contains(active_connections, w))
                      => ~ Contains(snapshot'[b], w)
                /\ (Len(sent'[b]) > Len(sent[b])
                    /\ sent'[b][Len(sent'[b])].to = w)
                      => Contains(snapshot[b], w)]_vars

\* Websocket 1 was disconnected by its endpoint, and a broadcast that holds
\* only websocket 2 in its copy has sent to websocket 2 and ended.
C39_Witness ==
    /\ NumWebSockets >= 2
    /\ epc[1] = "ended"
    /\ ~ Contains(active_connections, 1)
    /\ \E b \in Publishers :
          /\ bpc[b] = "done"
          /\ snapshot[b] = <<2>>
          /\ sent[b] = <<[to |-> 2, ok |-> TRUE]>>

====
